---- MODULE Spec2Model ----
(***************************************************************************)
(* Model of renner/file-importer, the concurrent variant of import.go      *)
(* (lines 243-491): timestamp resolution from EXIF / CR3 / ModTime, the    *)
(* file copier (copyFile, copyFileContents) and the bounded worker pool    *)
(* of main (fileChan, guard, wg).                                          *)
(*                                                                         *)
(* Strings that the code parses or formats are sequences of one-character  *)
(* strings; a time.Time is an instant (days since 0001-01-01 and seconds   *)
(* of the day, both in UTC) together with the offset of its location.      *)
(***************************************************************************)
EXTENDS Integers, Sequences, FiniteSets, TLC

\* F applied to the value of v, which is computed once (a local variable of
\* the code: v := ...; F(v)).
With(v, F(_)) == CHOOSE y \in {F(x) : x \in {v}} : TRUE

\* ------------------------------------------------------------------------
\* time.Time
\* ------------------------------------------------------------------------

SecondsPerDay == 24 * 60 * 60

\* The zero value of time.Time (var timestampValue time.Time; also what
\* time.Parse returns with an error): January 1, year 1, 00:00:00 UTC.
ZeroTime == [days |-> 0, secs |-> 0, off |-> 0]

\* time.Time.IsZero: the instant is the zero instant, whatever the location.
IsZero(t) == t.days = 0 /\ t.secs = 0

\* Days from 0001-01-01 to the civil date y-m-d (proleptic Gregorian calendar,
\* as time.Date computes it).
DaysFromCivil(y, m, d) ==
    LET yy  == IF m <= 2 THEN y - 1 ELSE y
        era == yy \div 400
        yoe == yy - era * 400
        mp  == ((m + 9) % 12)
        doy == (153 * mp + 2) \div 5 + d - 1
        doe == yoe * 365 + yoe \div 4 - yoe \div 100 + doy
    IN  era * 146097 + doe - 306

\* The civil date <<y, m, d>> of a day number (the inverse of DaysFromCivil),
\* as time.Time.Date computes it for Format.
CivilFromDays(n) ==
    LET z   == n + 306
        era == z \div 146097
        doe == z - era * 146097
        yoe == (doe - doe \div 1460 + doe \div 36524 - doe \div 146096) \div 365
        doy == doe - (365 * yoe + yoe \div 4 - yoe \div 100)
        mp  == (5 * doy + 2) \div 153
        d   == doy - (153 * mp + 2) \div 5 + 1
        m   == IF mp < 10 THEN mp + 3 ELSE mp - 9
        y   == yoe + era * 400 + (IF m <= 2 THEN 1 ELSE 0)
    IN  <<y, m, d>>

IsLeap(y) == y % 4 = 0 /\ (y % 100 # 0 \/ y % 400 = 0)

\* time.daysIn
daysIn(m, y) ==
    IF m = 2 THEN (IF IsLeap(y) THEN 29 ELSE 28)
    ELSE IF m \in {4, 6, 9, 11} THEN 30 ELSE 31

\* time.Date(y, m, d, h, mi, s, 0, loc) for a location with a fixed offset
\* (seconds east of UTC): the instant of that wall clock reading.
Date(y, m, d, h, mi, s, off) ==
    LET total == h * 3600 + mi * 60 + s - off
    IN  [days |-> DaysFromCivil(y, m, d) + total \div SecondsPerDay,
         secs |-> total % SecondsPerDay,
         off  |-> off]

\* The wall clock date <<y, m, d>> of t in its own location.
WallDate(t) == CivilFromDays(t.days + (t.secs + t.off) \div SecondsPerDay)

\* Two Time values denote the same instant (time.Time.Equal).
SameInstant(a, b) == a.days = b.days /\ a.secs = b.secs

\* ------------------------------------------------------------------------
\* Character strings
\* ------------------------------------------------------------------------

Digits == <<"0", "1", "2", "3", "4", "5", "6", "7", "8", "9">>

isDigit(s, i) == i <= Len(s) /\ s[i] \in {Digits[k] : k \in 1..10}

DigitVal(c) == CHOOSE k \in 0..9 : Digits[k + 1] = c

Pad2(n) == <<Digits[((n \div 10) % 10) + 1], Digits[(n % 10) + 1]>>

Pad4(n) == Pad2(n \div 100) \o Pad2(n % 100)

\* strconv.Atoi on a string of decimal digits (0 with an error otherwise; the
\* code drops the error: i, _ := strconv.Atoi(...)).
RECURSIVE AtoiFrom(_, _, _)
AtoiFrom(s, i, acc) ==
    IF i > Len(s) THEN acc
    ELSE IF ~isDigit(s, i) THEN 0
    ELSE AtoiFrom(s, i + 1, acc * 10 + DigitVal(s[i]))

Atoi(s) == IF s = <<>> THEN 0 ELSE AtoiFrom(s, 1, 0)

\* timestampValue.Format("20060102") and Format("2006-01-02")
Format20060102(t) ==
    LET c == WallDate(t) IN Pad4(c[1]) \o Pad2(c[2]) \o Pad2(c[3])

Format2006_01_02(t) ==
    LET c == WallDate(t) IN Pad4(c[1]) \o <<"-">> \o Pad2(c[2]) \o <<"-">> \o Pad2(c[3])

\* strings.ToLower on the letters the model's extensions use.
ToLowerChar(c) ==
    CASE c = "J" -> "j" [] c = "P" -> "p" [] c = "G" -> "g"
      [] c = "T" -> "t" [] c = "X" -> "x" [] c = "C" -> "c" [] c = "R" -> "r"
      [] OTHER -> c

ToLower(s) == [i \in 1..Len(s) |-> ToLowerChar(s[i])]

\* ------------------------------------------------------------------------
\* time.Parse / time.ParseInLocation for the two layouts the code uses
\* ------------------------------------------------------------------------

ParseFail == [ok |-> FALSE, t |-> ZeroTime]

\* First position at or after i that holds no digit.
RECURSIVE SkipDigits(_, _)
SkipDigits(s, i) == IF isDigit(s, i) THEN SkipDigits(s, i + 1) ELSE i

Num2(s, i) == DigitVal(s[i]) * 10 + DigitVal(s[i + 1])

Num4(s, i) == Num2(s, i) * 100 + Num2(s, i + 2)

\* time.Parse(layout, s) with layout "2006:01:02 15:04:05" (withZone FALSE) or
\* "2006:01:02 15:04:05-07:00" (withZone TRUE); defaultOff is the offset of the
\* default location (UTC for Parse, loc for ParseInLocation).  Year: four
\* digits; month, day, minute, second: exactly two digits; hour ("15"): one or
\* two digits; after the seconds a fraction [.,]digits is accepted although the
\* layout has none (its value, below one second, is not kept here); "-07:00":
\* sign, two digits, ':', two digits, hour <= 24, minute <= 60; nothing may
\* follow.
ParseLayout(s, withZone, defaultOff) ==
    IF ~(isDigit(s, 1) /\ isDigit(s, 2) /\ isDigit(s, 3) /\ isDigit(s, 4)) THEN ParseFail
    ELSE IF ~(Len(s) >= 12 /\ s[5] = ":" /\ isDigit(s, 6) /\ isDigit(s, 7)
              /\ s[8] = ":" /\ isDigit(s, 9) /\ isDigit(s, 10)
              /\ s[11] = " " /\ isDigit(s, 12)) THEN ParseFail
    ELSE
    LET year  == Num4(s, 1)
        month == Num2(s, 6)
        day   == Num2(s, 9)
        two   == isDigit(s, 13)
        hour  == IF two THEN Num2(s, 12) ELSE DigitVal(s[12])
        p     == IF two THEN 14 ELSE 13
    IN
    IF ~(Len(s) >= p + 5 /\ s[p] = ":" /\ isDigit(s, p + 1) /\ isDigit(s, p + 2)
         /\ s[p + 3] = ":" /\ isDigit(s, p + 4) /\ isDigit(s, p + 5)) THEN ParseFail
    ELSE
    LET min  == Num2(s, p + 1)
        sec  == Num2(s, p + 4)
        q0   == p + 6
        frac == q0 + 1 <= Len(s) /\ s[q0] \in {".", ","} /\ isDigit(s, q0 + 1)
        q    == IF frac THEN SkipDigits(s, q0 + 1) ELSE q0
        rangeOk == /\ month >= 1 /\ month <= 12
                   /\ hour < 24 /\ min < 60 /\ sec < 60
                   /\ day >= 1 /\ day <= daysIn(month, year)
    IN
    IF ~withZone
    THEN IF q = Len(s) + 1 /\ rangeOk
         THEN [ok |-> TRUE, t |-> Date(year, month, day, hour, min, sec, defaultOff)]
         ELSE ParseFail
    ELSE IF ~(Len(s) = q + 5 /\ s[q + 3] = ":"
              /\ isDigit(s, q + 1) /\ isDigit(s, q + 2)
              /\ isDigit(s, q + 4) /\ isDigit(s, q + 5)
              /\ s[q] \in {"+", "-"}) THEN ParseFail
    ELSE
    LET hr   == Num2(s, q + 1)
        mm   == Num2(s, q + 4)
        zoneOffset == (IF s[q] = "-" THEN -1 ELSE 1) * (hr * 60 + mm) * 60
    IN
    IF rangeOk /\ hr <= 24 /\ mm <= 60
    THEN [ok |-> TRUE, t |-> Date(year, month, day, hour, min, sec, zoneOffset)]
    ELSE ParseFail

\* ------------------------------------------------------------------------
\* EXIF content and timestamp resolution
\* ------------------------------------------------------------------------

TagNames == {"DateTimeOriginal", "OffsetTimeOriginal", "OffsetTime", "DateTime"}

\* One tag of an IFD: absent, or present with a value that is an ASCII string
\* (kind "ascii"), of another type such as bytes or rationals (kind "other"),
\* or that the library cannot decode (kind "bad": Value() returns an error).
NoTag == [kind |-> "absent", s |-> <<>>]

Ascii(str) == [kind |-> "ascii", s |-> str]

NonText == [kind |-> "other", s |-> <<>>]

Undecodable == [kind |-> "bad", s |-> <<>>]

EmptyIfd == [n \in TagNames |-> NoTag]

\* What findTagInAllIfds returns: (string, error), or a run-time panic of the
\* calling goroutine.
FindResult(str, e, p) == [s |-> str, err |-> e, panic |-> p]

\* findTagInAllIfds from IFD i on: the first IFD that has the tag decides.
\* valueRaw.(string) is an unchecked type assertion: it panics when the value
\* is not a string.
RECURSIVE findTagFrom(_, _, _)
findTagFrom(ifds, tagName, i) ==
    IF i > Len(ifds) THEN FindResult(<<>>, TRUE, FALSE)
    ELSE LET v == ifds[i][tagName] IN
         CASE v.kind = "absent" -> findTagFrom(ifds, tagName, i + 1)
           [] v.kind = "bad"    -> FindResult(<<>>, TRUE, FALSE)
           [] v.kind = "other"  -> FindResult(<<>>, FALSE, TRUE)
           [] OTHER             -> FindResult(v.s, FALSE, FALSE)

findTagInAllIfds(ifds, tagName) == findTagFrom(ifds, tagName, 1)

\* The result of the timestamp resolution of one worker: the value of
\* timestampValue at line 466 and the branch that assigned it ("offset",
\* "local", "cr3", "mtime"), or a panic.
Resolved(time, from) == [panic |-> FALSE, t |-> time, source |-> from]

Panicked == [panic |-> TRUE, t |-> ZeroTime, source |-> "none"]

\* A layout with a blank before the offset (layout+" -07:00").
parseWithOffset_blank(dateTimeString, offsetString) ==
    ParseLayout(dateTimeString \o <<" ">> \o offsetString, TRUE, 0).t

\* Line 441: time.Parse(layout+"-07:00", dateTimeString+offsetString); the
\* zero time on an error.
parseWithOffset(dateTimeString, offsetString) ==
    ParseLayout(dateTimeString \o offsetString, TRUE, 0).t

\* Line 449: time.ParseInLocation(layout, dateTimeString, time.Local); the
\* zero time on an error.
parseLocal(dateTimeString, localOff) ==
    ParseLayout(dateTimeString, FALSE, localOff).t

\* Lines 405-464 of main's worker.  c is the content of the opened file:
\*   c.exif  "none"    exif.SearchAndExtractExifWithReader fails
\*           "corrupt" the EXIF block is found and exif.Collect fails
\*           "ok"      c.ifds is index.Ifds
\*   c.cr3   what imagemeta.DecodeCR3 gives: ok = FALSE for an error, else
\*           t = md.DateTimeOriginal()
\* modTime is f.ModTime(), localOff the offset of time.Local.
resolve(c, modTime, localOff) ==
    LET exifOk == c.exif = "ok"
        none   == FindResult(<<>>, FALSE, FALSE)
        dt     == IF exifOk THEN findTagInAllIfds(c.ifds, "DateTimeOriginal") ELSE none
        offO   == IF exifOk /\ ~dt.panic
                  THEN findTagInAllIfds(c.ifds, "OffsetTimeOriginal") ELSE none
        offG   == IF exifOk /\ ~dt.panic /\ ~offO.panic /\ offO.err
                  THEN findTagInAllIfds(c.ifds, "OffsetTime") ELSE offO
        dateTimeString == dt.s
        dtErr          == dt.err
        offsetString   == offG.s
        \* 2. Fallback for CR3
        ts2 == IF (dtErr \/ dateTimeString = <<>>) /\ c.cr3.ok THEN c.cr3.t ELSE ZeroTime
        \* 3. the extracted strings
        useStrings == IsZero(ts2) /\ dateTimeString # <<>>
        withOff == IF useStrings /\ offsetString # <<>>
                   THEN parseWithOffset(dateTimeString, offsetString)
                   ELSE ts2
        asLocal == IF useStrings /\ IsZero(withOff)
                   THEN parseLocal(dateTimeString, localOff)
                   ELSE withOff
    IN
    IF dt.panic \/ offO.panic \/ offG.panic THEN Panicked
    ELSE IF ~IsZero(ts2) THEN Resolved(ts2, "cr3")
    ELSE IF ~IsZero(withOff) THEN Resolved(withOff, "offset")
    ELSE IF ~IsZero(asLocal) THEN Resolved(asLocal, "local")
    \* 4. Final fallback to ModTime
    ELSE Resolved([days |-> modTime.days, secs |-> modTime.secs, off |-> localOff], "mtime")

\* ------------------------------------------------------------------------
\* Inputs of the timestamp resolution
\* ------------------------------------------------------------------------

\* Number of IFDs of a modelled EXIF index.
NumIfds == 2

\* Wall clock readings <<y, m, d, h, mi, s>> that the capture dates are
\* formatted from.
Readings == {<<2021, 4, 12, 13, 14, 15>>, <<2022, 1, 1, 0, 30, 0>>, <<2021, 12, 31, 23, 59, 59>>}

\* The EXIF form "YYYY:MM:DD HH:MM:SS" of a reading.
DateString(r) ==
    Pad4(r[1]) \o <<":">> \o Pad2(r[2]) \o <<":">> \o Pad2(r[3]) \o <<" ">>
      \o Pad2(r[4]) \o <<":">> \o Pad2(r[5]) \o <<":">> \o Pad2(r[6])

\* Zone offsets <<sign, hours, minutes>> and their EXIF form "+HH:MM".
Offsets == {<<1, 2, 0>>, <<-1, 5, 30>>, <<1, 0, 0>>}

OffsetSeconds(o) == o[1] * (o[2] * 60 + o[3]) * 60

OffsetString(o) ==
    <<IF o[1] < 0 THEN "-" ELSE "+">> \o Pad2(o[2]) \o <<":">> \o Pad2(o[3])

\* Capture-date values that are not of the form above: empty, month 13, '-'
\* for ':', February 30th, the all-zero date of an unset camera clock.
MalformedDates ==
    { <<>>,
      <<"2", "0", "2", "1", ":", "1", "3", ":", "1", "2", " ", "1", "3", ":", "1", "4", ":", "1", "5">>,
      <<"2", "0", "2", "1", "-", "0", "4", "-", "1", "2", " ", "1", "3", ":", "1", "4", ":", "1", "5">>,
      <<"2", "0", "2", "1", ":", "0", "2", ":", "3", "0", " ", "1", "0", ":", "0", "0", ":", "0", "0">>,
      <<"0", "0", "0", "0", ":", "0", "0", ":", "0", "0", " ", "0", "0", ":", "0", "0", ":", "0", "0">> }

\* Offset values that are not of the form [+-]HH:MM: no colon, a bad sign
\* character, hour 25, a one-digit hour, blanks, a trailing seconds part,
\* an offset behind characters that are no sign (".5").
MalformedOffsets ==
    { <<"+", "0", "2", "0", "0">>,
      <<".", "5", "+", "0", "2", ":", "0", "0">>,
      <<"*", "0", "2", ":", "0", "0">>,
      <<"+", "2", "5", ":", "0", "0">>,
      <<"+", "2", ":", "0", "0">>,
      <<" ", " ", " ", ":", " ", " ">>,
      <<"+", "0", "2", ":", "0", "0", ":", "0", "0">> }

DateTagValues ==
    {NoTag, NonText, Undecodable}
      \cup {Ascii(DateString(r)) : r \in Readings}
      \cup {Ascii(str) : str \in MalformedDates}

OffsetTagValues ==
    {NoTag, NonText, Undecodable, Ascii(<<>>)}
      \cup {Ascii(OffsetString(o)) : o \in Offsets}
      \cup {Ascii(str) : str \in MalformedOffsets}

GenericOffsetValues == {NoTag, NonText, Ascii(OffsetString(<<1, 1, 0>>))}

GenericDateValues == {NoTag, Ascii(DateString(<<2020, 2, 29, 8, 0, 0>>))}

\* An index of NumIfds IFDs whose IFD number at holds the four tags; the
\* other IFDs hold none of them.
Index(at, dto, oto, ot, dtg) ==
    [i \in 1..NumIfds |->
        IF i = at
        THEN [n \in TagNames |->
                CASE n = "DateTimeOriginal"   -> dto
                  [] n = "OffsetTimeOriginal" -> oto
                  [] n = "OffsetTime"         -> ot
                  [] OTHER                    -> dtg]
        ELSE EmptyIfd]

NoCr3 == [ok |-> FALSE, t |-> ZeroTime]

\* What DecodeCR3 can give: an error, a header without a date (the zero time),
\* a date.
Cr3Values == {NoCr3, [ok |-> TRUE, t |-> ZeroTime],
              [ok |-> TRUE, t |-> Date(2023, 5, 6, 7, 8, 9, 0)]}

NoExif(kind, cr) == [exif |-> kind, ifds |-> <<>>, cr3 |-> cr]

Contents ==
    {NoExif(k, cr) : k \in {"none", "corrupt"}, cr \in Cr3Values}
      \cup {[exif |-> "ok", ifds |-> Index(at, dto, oto, ot, dtg), cr3 |-> cr] :
              at \in 1..NumIfds, dto \in DateTagValues, oto \in OffsetTagValues,
              ot \in GenericOffsetValues, dtg \in GenericDateValues, cr \in Cr3Values}

\* Modification times (instants) and offsets of time.Local.
ModTimes == {[days |-> DaysFromCivil(2022, 1, 2), secs |-> 3600],
             [days |-> DaysFromCivil(2021, 4, 12), secs |-> 85000]}

LocalOffsets == {0, 7200, -18000}

\* ------------------------------------------------------------------------
\* The filesystem
\* ------------------------------------------------------------------------
\* A path is a sequence of names.  A filesystem is a record
\*   ent    the existing paths, each with its kind ("file": regular, "dir",
\*          "other": device, socket, ...) and, for a regular file, its inode
\*          (inodes are named by paths, <<>> standing for none);
\*          two paths with one inode are one file (a hard link, or a symbolic
\*          link as os.Stat follows it)
\*   data   the bytes of each inode (a sequence)
\*   mtime  the modification time of each inode (an instant)
\* The root <<>> is a directory.

Parent(p) == SubSeq(p, 1, Len(p) - 1)

Exists(fs, p) == p = <<>> \/ p \in DOMAIN fs.ent

KindAt(fs, p) == IF p = <<>> THEN "dir" ELSE fs.ent[p].kind

\* Path resolution of the directory part of p: "" when every proper prefix of
\* p is a directory, else the errno.
RECURSIVE Lookup(_, _, _)
Lookup(fs, p, i) ==
    IF i >= Len(p) THEN ""
    ELSE LET q == SubSeq(p, 1, i) IN
         IF ~Exists(fs, q) THEN "ENOENT"
         ELSE IF KindAt(fs, q) # "dir" THEN "ENOTDIR"
         ELSE Lookup(fs, p, i + 1)

\* os.Stat: err is "" or the errno; os.IsNotExist(err) is err = "ENOENT".
Stat(fs, p) ==
    LET e == Lookup(fs, p, 1) IN
    IF e # "" THEN [err |-> e, kind |-> "", ino |-> <<>>, modTime |-> [days |-> 0, secs |-> 0]]
    ELSE IF ~Exists(fs, p)
         THEN [err |-> "ENOENT", kind |-> "", ino |-> <<>>, modTime |-> [days |-> 0, secs |-> 0]]
    ELSE LET k == KindAt(fs, p)
             n == IF k = "file" THEN fs.ent[p].ino ELSE <<>>
         IN  [err |-> "", kind |-> k, ino |-> n,
              modTime |-> IF k = "file" THEN fs.mtime[n] ELSE [days |-> 0, secs |-> 0]]

\* A comparison that never finds the two to be the same file.
SameFile_never(a, b) == FALSE

\* os.SameFile on two successful Stat results.
SameFile(a, b) == a.kind = b.kind /\ a.ino = b.ino /\ a.kind = "file"

\* os.Create(p) where p does not exist and its directory does: a new empty
\* file.  The new inode is named by the path it is created at (no file is
\* ever removed, so the name is fresh).
createNew(fs, p, now) ==
    [err |-> "", ino |-> p,
     fs |-> [ent   |-> [q \in DOMAIN fs.ent \cup {p} |->
                          IF q = p THEN [kind |-> "file", ino |-> p] ELSE fs.ent[q]],
             data  |-> [m \in DOMAIN fs.data \cup {p} |->
                          IF m = p THEN <<>> ELSE fs.data[m]],
             mtime |-> [m \in DOMAIN fs.mtime \cup {p} |->
                          IF m = p THEN now ELSE fs.mtime[m]]]]

\* An open for writing without O_TRUNC: an existing file keeps its bytes.
Create_noTrunc(fs, p, now) ==
    LET e == Lookup(fs, p, 1) IN
    IF e # "" THEN [err |-> e, ino |-> <<>>, fs |-> fs]
    ELSE IF Exists(fs, p)
    THEN IF KindAt(fs, p) = "file"
         THEN [err |-> "", ino |-> fs.ent[p].ino, fs |-> fs]
         ELSE [err |-> "EISDIR", ino |-> <<>>, fs |-> fs]
    ELSE createNew(fs, p, now)

\* os.Create(p) = OpenFile(p, O_RDWR|O_CREATE|O_TRUNC, 0666): an existing
\* regular file is truncated, a missing one is created in its (existing)
\* directory; the result names the inode that the handle is open on.
Create(fs, p, now) ==
    LET e == Lookup(fs, p, 1) IN
    IF e # "" THEN [err |-> e, ino |-> <<>>, fs |-> fs]
    ELSE IF Exists(fs, p)
    THEN IF KindAt(fs, p) = "file"
         THEN LET n == fs.ent[p].ino IN
              [err |-> "", ino |-> n,
               fs |-> [fs EXCEPT !.data[n] = <<>>, !.mtime[n] = now]]
         ELSE IF KindAt(fs, p) = "dir" THEN [err |-> "EISDIR", ino |-> <<>>, fs |-> fs]
         ELSE [err |-> "ENXIO", ino |-> <<>>, fs |-> fs]
    ELSE createNew(fs, p, now)

\* A call that reports success and sets nothing.
Chtimes_skip(fs, p, mtime) == [err |-> "", fs |-> fs]

\* os.Chtimes(p, atime, mtime): by path.
Chtimes(fs, p, mtime) ==
    IF Stat(fs, p).err # "" THEN [err |-> Stat(fs, p).err, fs |-> fs]
    ELSE IF KindAt(fs, p) # "file" THEN [err |-> "", fs |-> fs]
    ELSE [err |-> "", fs |-> [fs EXCEPT !.mtime[fs.ent[p].ino] = mtime]]

\* os.MkdirAll(p, 0755): creates p and its missing ancestors; an existing
\* directory is no error, an existing non-directory on the way is.
RECURSIVE MkdirAllFrom(_, _, _)
MkdirAllFrom(fs, p, i) ==
    IF i > Len(p) THEN [err |-> "", fs |-> fs]
    ELSE LET q == SubSeq(p, 1, i) IN
         IF Exists(fs, q)
         THEN IF KindAt(fs, q) = "dir" THEN MkdirAllFrom(fs, p, i + 1)
              ELSE [err |-> "ENOTDIR", fs |-> fs]
         ELSE MkdirAllFrom(
                [fs EXCEPT !.ent = [r \in DOMAIN fs.ent \cup {q} |->
                     IF r = q THEN [kind |-> "dir", ino |-> <<>>] ELSE fs.ent[r]]],
                p, i + 1)

MkdirAll(fs, p) == MkdirAllFrom(fs, p, 1)

\* ------------------------------------------------------------------------
\* copyFile and copyFileContents
\* ------------------------------------------------------------------------
\* An I/O fault of the environment is a record [step, n]: the step of
\* copyFileContents that fails ("none" for a run without fault) and, for
\* "copy", the number of bytes io.Copy wrote before it failed.

NoFault == [step |-> "none", n |-> 0]

Prefix(seq, n) == SubSeq(seq, 1, IF n < Len(seq) THEN n ELSE Len(seq))

\* io.Copy(out, in) onto inode dIno from inode sIno (read as it is now): the
\* bytes are written from offset 0 over what the file holds.
ioCopy(fs, sIno, dIno, fault, now) ==
    LET bytes   == fs.data[sIno]
        written == IF fault.step = "copy" THEN Prefix(bytes, fault.n) ELSE bytes
        old     == fs.data[dIno]
    IN  [err |-> IF fault.step = "copy" THEN "EIO" ELSE "",
         fs  |-> IF written = <<>> THEN fs
                 ELSE [fs EXCEPT !.data[dIno] =
                                    written \o SubSeq(old, Len(written) + 1, Len(old)),
                                 !.mtime[dIno] = now]]

\* The result of a copy: the error ("" for nil) and the filesystem afterwards.
CopyResult(e, after) == [err |-> e, fs |-> after]

\* copyFileContents(src, dst, mtime): open, create/truncate, io.Copy, Chtimes,
\* Sync, and the deferred Close of out, whose error is returned only when no
\* earlier step failed.  Every failure returns with what was written so far.
\* The steps after os.Create, on its result out:
afterCreate(in, out, dst, mtime, fault, now) ==
    IF in.kind # "file" THEN CopyResult("EISDIR", out.fs)
    ELSE With(ioCopy(out.fs, in.ino, out.ino, fault, now), LAMBDA copied :
         IF copied.err # "" THEN copied
         ELSE IF fault.step = "chtimes" THEN CopyResult("EPERM", copied.fs)
         ELSE With(Chtimes(copied.fs, dst, mtime), LAMBDA stamped :
              IF stamped.err # "" THEN stamped
              ELSE IF fault.step = "sync" THEN CopyResult("EIO", stamped.fs)
              ELSE IF fault.step = "close" THEN CopyResult("EIO", stamped.fs)
              ELSE CopyResult("", stamped.fs)))

copyFileContents(fs, src, dst, mtime, fault, now) ==
    With(Stat(fs, src), LAMBDA in :
    IF in.err # "" THEN CopyResult(in.err, fs)
    ELSE IF fault.step = "open" THEN CopyResult("EACCES", fs)
    ELSE IF fault.step = "create" THEN CopyResult("EACCES", fs)
    ELSE With(Create(fs, dst, now), LAMBDA out :
         IF out.err # "" THEN CopyResult(out.err, fs)
         ELSE afterCreate(in, out, dst, mtime, fault, now)))

\* A mode test that takes everything for a regular file.
IsRegular_always(fi) == TRUE

\* Lines 268, 278: fi.Mode().IsRegular()
IsRegular(fi) == fi.kind = "file"

\* copyFile(src, dst)
copyFile(fs, src, dst, fault, now) ==
    With(Stat(fs, src), LAMBDA sfi :
    IF sfi.err # "" THEN CopyResult(sfi.err, fs)
    ELSE IF ~IsRegular(sfi) THEN CopyResult("Non-regular source file", fs)
    ELSE With(Stat(fs, dst), LAMBDA dfi :
         IF dfi.err # "" /\ dfi.err # "ENOENT" THEN CopyResult(dfi.err, fs)
         ELSE IF dfi.err = "" /\ ~IsRegular(dfi)
              THEN CopyResult("Non-regular destination file", fs)
         ELSE IF dfi.err = "" /\ SameFile(sfi, dfi) THEN CopyResult("", fs)
         ELSE copyFileContents(fs, src, dst, sfi.modTime, fault, now)))

\* ------------------------------------------------------------------------
\* Inputs of the copier
\* ------------------------------------------------------------------------

\* Length of the longest modelled file content.
MaxBytes == 2

RECURSIVE ByteStrings(_)
ByteStrings(n) ==
    IF n = 0 THEN {<<>>}
    ELSE ByteStrings(n - 1)
           \cup {Append(b, x) : b \in {c \in ByteStrings(n - 1) : Len(c) = n - 1}, x \in {7, 9}}

Now == [days |-> DaysFromCivil(2024, 6, 1), secs |-> 100]

CopyModTimes == {[days |-> DaysFromCivil(2021, 4, 12), secs |-> 47655],
                 [days |-> DaysFromCivil(2022, 1, 2), secs |-> 11045]}

Faults ==
    {NoFault} \cup {[step |-> st, n |-> 0] : st \in {"open", "create", "chtimes", "sync", "close"}}
      \cup {[step |-> "copy", n |-> k] : k \in 0..MaxBytes - 1}

\* What one of the two paths tmp/a, tmp/b holds.
Absent == [kind |-> "absent", data |-> <<>>, mtime |-> Now]

NodeSpecs ==
    {Absent, [kind |-> "dir", data |-> <<>>, mtime |-> Now],
     [kind |-> "other", data |-> <<>>, mtime |-> Now]}
      \cup {[kind |-> "file", data |-> b, mtime |-> m] :
              b \in ByteStrings(MaxBytes), m \in CopyModTimes}

PathA == <<"tmp", "a">>

PathB == <<"tmp", "b">>

\* A path in a directory that does not exist.
PathC == <<"tmp", "missing", "c">>

\* A path below the regular file or directory a.
PathD == <<"tmp", "a", "d">>

CopyPaths == {PathA, PathB, PathC, PathD}

\* The directory tmp with a and b as specified; with link, b is a second name
\* of the file a.
MkFS(a, b, link) ==
    LET names == {<<"tmp">>} \cup (IF a.kind # "absent" THEN {PathA} ELSE {})
                   \cup (IF b.kind # "absent" \/ link THEN {PathB} ELSE {})
        inoOf(p) == IF p = PathA \/ link THEN PathA ELSE PathB
        spec(p)  == IF p = PathA \/ link THEN a ELSE b
        inos     == {inoOf(p) : p \in {q \in names \ {<<"tmp">>} : spec(q).kind = "file"}}
    IN  [ent   |-> [p \in names |->
                      IF p = <<"tmp">> THEN [kind |-> "dir", ino |-> <<>>]
                      ELSE [kind |-> spec(p).kind,
                            ino  |-> IF spec(p).kind = "file" THEN inoOf(p) ELSE <<>>]],
         data  |-> [n \in inos |-> IF n = PathA THEN a.data ELSE b.data],
         mtime |-> [n \in inos |-> IF n = PathA THEN a.mtime ELSE b.mtime]]

CopyFileSystems ==
    {MkFS(a, b, FALSE) : a \in NodeSpecs, b \in NodeSpecs}
      \cup {MkFS(a, Absent, TRUE) : a \in {x \in NodeSpecs : x.kind = "file"}}

\* ------------------------------------------------------------------------
\* The run: configuration and directory listing
\* ------------------------------------------------------------------------

\* const maxGoroutines = 10
maxGoroutines == 10

\* Number of entries of the large source directory: one subdirectory, one
\* entry whose Info fails and NumFiles - 2 files that are dispatched, more
\* than the pool has slots.
NumFiles == 13

\* The default of --end, ^uint(0): above every date key.
DefaultEnd == 2147483647

FromDir == <<<<"i", "n">>>>

ToDir == <<<<"o", "u", "t">>>>

\* filepath.Ext and strings.Trim(., "."): the text after the last dot of the
\* name, empty when the name has no dot.
RECURSIVE LastDot(_, _)
LastDot(name, i) == IF i = 0 THEN 0 ELSE IF name[i] = "." THEN i ELSE LastDot(name, i - 1)

TrimmedExt(name) ==
    LET k == LastDot(name, Len(name)) IN
    IF k = 0 THEN <<>> ELSE SubSeq(name, k + 1, Len(name))

ExifDate(r) == [exif |-> "ok", cr3 |-> NoCr3,
                ifds |-> Index(NumIfds, Ascii(DateString(r)), NoTag, NoTag, NoTag)]

ExifDateOffset(r, o) ==
    [exif |-> "ok", cr3 |-> NoCr3,
     ifds |-> Index(1, Ascii(DateString(r)), Ascii(OffsetString(o)), NoTag, NoTag)]

\* A directory entry: its name, whether it is a directory, the bytes and the
\* modification time of the file, the metadata its bytes hold, and the fault
\* of the environment that hits its processing ("info": DirEntry.Info fails;
\* "openfile": os.Open in the worker fails; "mkdir": os.MkdirAll fails; or a
\* fault of the copy).
EntryRec(nm, dir, m, c, flt) ==
    [name |-> nm, isDir |-> dir, bytes |-> <<Len(nm), 7>>, mtime |-> m,
     content |-> c, fault |-> flt]

Jan2 == [days |-> DaysFromCivil(2022, 1, 2), secs |-> 11045]

Mar3 == [days |-> DaysFromCivil(2021, 3, 3), secs |-> 47655]

Jun1 == [days |-> DaysFromCivil(2022, 6, 1), secs |-> 100]

Plain == NoExif("none", NoCr3)

Fault(st) == [step |-> st, n |-> 1]

\* Entry i of the large directory "01", "02.jpg", "03.txt", ... (os.ReadDir
\* returns the entries sorted by name).
Entry(i) ==
    LET k == IF i <= 13 THEN i ELSE 2 + ((i - 14) % 10)
        nm(ext) == Pad2(i) \o <<".">> \o ext
    IN
    CASE k = 1  -> EntryRec(Pad2(i), TRUE, Jan2, Plain, NoFault)
      [] k = 2  -> EntryRec(nm(<<"j", "p", "g">>), FALSE, Jan2, ExifDate(<<2021, 4, 12, 13, 14, 15>>), NoFault)
      [] k = 3  -> EntryRec(nm(<<"t", "x", "t">>), FALSE, Jan2, Plain, NoFault)
      [] k = 4  -> EntryRec(nm(<<"J", "P", "G">>), FALSE, Mar3,
                            ExifDateOffset(<<2022, 1, 1, 0, 30, 0>>, <<-1, 5, 30>>), NoFault)
      [] k = 5  -> EntryRec(nm(<<"j", "p", "g">>), FALSE, Jan2, ExifDate(<<2021, 4, 12, 13, 14, 15>>),
                            Fault("openfile"))
      [] k = 6  -> EntryRec(nm(<<"j", "p", "g">>), FALSE, Jan2, ExifDate(<<2020, 2, 29, 8, 0, 0>>), NoFault)
      [] k = 7  -> EntryRec(nm(<<"j", "p", "g">>), FALSE, Mar3, ExifDate(<<2021, 4, 12, 13, 14, 15>>),
                            Fault("mkdir"))
      [] k = 8  -> EntryRec(nm(<<"j", "p", "g">>), FALSE, Mar3, ExifDate(<<2021, 12, 31, 23, 59, 59>>),
                            Fault("chtimes"))
      [] k = 9  -> EntryRec(nm(<<"j", "p", "g">>), FALSE, Jan2, Plain, Fault("copy"))
      [] k = 10 -> EntryRec(nm(<<"c", "r", "3">>), FALSE, Mar3,
                            NoExif("none", [ok |-> TRUE, t |-> Date(2021, 5, 6, 7, 8, 9, 0)]),
                            NoFault)
      [] k = 11 -> EntryRec(nm(<<"j", "p", "g">>), FALSE, Mar3,
                            [exif |-> "ok", cr3 |-> NoCr3,
                             ifds |-> Index(1, Ascii(<<"2", "0", "2", "1", ":", "1", "3", ":", "1", "2", " ", "1", "3", ":", "1", "4", ":", "1", "5">>), NoTag, NoTag, NoTag)],
                            NoFault)
      [] k = 12 -> EntryRec(nm(<<"t", "x", "t">>), FALSE, Mar3, Plain, Fault("info"))
      [] OTHER  -> EntryRec(nm(<<"j", "p", "g">>), FALSE, Jun1, Plain, Fault("sync"))

\* A file whose DateTimeOriginal tag holds a value that is not a string.
NonTextEntry ==
    EntryRec(<<"z", "z", ".", "t", "i", "f">>, FALSE, Jan2,
             [exif |-> "ok", cr3 |-> NoCr3, ifds |-> Index(1, NonText, NoTag, NoTag, NoTag)],
             NoFault)

\* A source directory that is a dated folder of the destination directory,
\* and a file in it whose modification time is of that date.
DatedFromDir == ToDir \o <<<<"2", "0", "2", "2", "-", "0", "1", "-", "0", "2", "-", "j", "p", "g">>>>

DatedEntry == EntryRec(<<"a", "a", ".", "j", "p", "g">>, FALSE, Jan2, Plain, NoFault)

LargeListing == [i \in 1..NumFiles |-> Entry(i)]

\* A run: the flags, the offset of time.Local, what os.ReadDir gives (err for
\* its error) and the entries of the source directory.
Run(src, dst, flt, lo, hi, loc, rdErr, list) ==
    [from |-> src, to |-> dst, filter |-> flt, start |-> lo, end |-> hi,
     localOff |-> loc, readDirErr |-> rdErr, entries |-> list]

Runs ==
    { Run(FromDir, ToDir, <<>>, 20210412, 20220102, 7200, FALSE, LargeListing),
      Run(FromDir, ToDir, <<"j", "p", "g">>, 0, DefaultEnd, 0, FALSE, LargeListing),
      Run(FromDir, ToDir, <<>>, 0, DefaultEnd, -18000, FALSE,
          <<Entry(2), Entry(3), NonTextEntry>>),
      Run(FromDir, ToDir, <<>>, 0, DefaultEnd, 0, TRUE, <<Entry(2)>>),
      Run(<<>>, ToDir, <<>>, 0, DefaultEnd, 0, FALSE, <<Entry(2)>>),
      Run(DatedFromDir, ToDir, <<>>, 0, DefaultEnd, 0, FALSE,
          <<Entry(2), Entry(3), DatedEntry>>),
      Run(FromDir, FromDir, <<>>, 0, DefaultEnd, 0, FALSE,
          <<Entry(1), Entry(2), Entry(3)>>) }

\* The filesystem before the run: the source directory with its entries; the
\* destination directory exists and holds nothing but, in one run, the source
\* directory.
InitialFS(run) ==
    LET n     == Len(run.entries)
        path(i) == run.from \o <<run.entries[i].name>>
        files == {i \in 1..n : ~run.entries[i].isDir}
        dirs  == {SubSeq(run.from, 1, k) : k \in 1..Len(run.from)}
                   \cup {SubSeq(run.to, 1, k) : k \in 1..Len(run.to)}
    IN  [ent   |-> [p \in dirs \cup {path(i) : i \in 1..n} |->
                      IF p \in dirs THEN [kind |-> "dir", ino |-> <<>>]
                      ELSE LET i == CHOOSE j \in 1..n : path(j) = p IN
                           IF run.entries[i].isDir THEN [kind |-> "dir", ino |-> <<>>]
                           ELSE [kind |-> "file", ino |-> p]],
         data  |-> [p \in {path(i) : i \in files} |->
                      run.entries[CHOOSE j \in 1..n : path(j) = p].bytes],
         mtime |-> [p \in {path(i) : i \in files} |->
                      run.entries[CHOOSE j \in 1..n : path(j) = p].mtime]]

\* ------------------------------------------------------------------------
\* State
\* ------------------------------------------------------------------------

VARIABLES
    rIn,        \* resolution: the input [c, modTime, localOff]
    rOut,       \* resolution: the result, or NotYet
    cIn,        \* copy: the call [fs, src, dst] (fs: the filesystem before)
    cFault,     \* copy: the fault of the environment during the call
    cOut,       \* copy: the result of copyFile, or NotYet
    run,        \* the run: flags, time.Local, directory listing
    fs,         \* the filesystem of the run
    status,     \* the process: "running", "exit0", "usage", "fatal", "panic"
    mainpc,     \* main: "args", "readdir", "enum", "range", "acquire", "go",
                \*       "wait", "returned"
    idx,        \* main: the entry the enumeration loop is at
    fileChan,   \* the buffered channel: the queued entries (their numbers)
    closed,     \* fileChan is closed
    cur,        \* main: the entry received from fileChan (0: none)
    guard,      \* number of tokens in the guard channel
    wg,         \* the WaitGroup counter
    pc,         \* per entry, its worker: "none", "running", "done"
    result,     \* per entry, how its worker ended: "", "openfail", "filtered",
                \*       "mkdirfail", "copyfail", "copied"
    stamp,      \* per entry, timestampValue at line 466 (ZeroTime before)
    started,    \* per entry, the number of workers started for it
    resolved,   \* per entry, the number of resolutions completed
    copies,     \* per entry, the number of copyFile calls that returned
    at,         \* per entry, the statement its worker is at when the workers
                \*       are followed statement by statement
    hSrc,       \* per entry, the open handles its worker has on its source
    hDst,       \* per entry, the open handles its worker has on its destination
    loc         \* per entry, the local variables of its worker

resolveVars == <<rIn, rOut>>

copyVars == <<cIn, cFault, cOut>>

runVars == <<run, fs, status, mainpc, idx, fileChan, closed, cur, guard, wg, pc,
             result, stamp, started, resolved, copies>>

stepVars == <<at, hSrc, hDst, loc>>

vars == <<resolveVars, copyVars, runVars, stepVars>>

NotYet == [done |-> FALSE]

\* ------------------------------------------------------------------------
\* The resolution and the copier on their own
\* ------------------------------------------------------------------------

IdleResolve ==
    /\ rIn = [c |-> Plain, modTime |-> Jan2, localOff |-> 0]
    /\ rOut = NotYet

IdleCopy ==
    /\ cIn = [fs |-> MkFS(Absent, Absent, FALSE), src |-> PathA, dst |-> PathB]
    /\ cFault = NoFault
    /\ cOut = NotYet

IdleRun ==
    /\ run = Run(FromDir, ToDir, <<>>, 0, DefaultEnd, 0, FALSE, <<>>)
    /\ fs = InitialFS(run)
    /\ status = "running"
    /\ mainpc = "idle"
    /\ idx = 1
    /\ fileChan = <<>>
    /\ closed = FALSE
    /\ cur = 0
    /\ guard = 0
    /\ wg = 0
    /\ pc = <<>>
    /\ result = <<>>
    /\ stamp = <<>>
    /\ started = <<>>
    /\ resolved = <<>>
    /\ copies = <<>>

IdleStep ==
    /\ at = <<>>
    /\ hSrc = <<>>
    /\ hDst = <<>>
    /\ loc = <<>>

ResolveInit ==
    /\ rIn \in [c : Contents, modTime : ModTimes, localOff : LocalOffsets]
    /\ rOut = NotYet
    /\ IdleCopy
    /\ IdleRun
    /\ IdleStep

\* One resolution: lines 405-464 on the input.
Resolve ==
    /\ rOut = NotYet
    /\ rOut' = [done |-> TRUE, r |-> resolve(rIn.c, rIn.modTime, rIn.localOff)]
    /\ UNCHANGED <<rIn, copyVars, runVars, stepVars>>

ResolveSpec == ResolveInit /\ [][Resolve]_vars

CopyInit ==
    /\ cIn \in [fs : CopyFileSystems, src : CopyPaths, dst : CopyPaths]
    /\ cFault = NoFault
    /\ cOut = NotYet
    /\ IdleResolve
    /\ IdleRun
    /\ IdleStep

\* One call copyFile(src, dst) under some fault of the environment.
Copy ==
    /\ cOut = NotYet
    /\ \E flt \in Faults :
          /\ cFault' = flt
          /\ cOut' = [done |-> TRUE,
                      r |-> copyFile(cIn.fs, cIn.src, cIn.dst, flt, Now)]
    /\ UNCHANGED <<cIn, resolveVars, runVars, stepVars>>

CopySpec == CopyInit /\ [][Copy]_vars

\* ------------------------------------------------------------------------
\* The run: main and its workers
\* ------------------------------------------------------------------------

NumEntries == Len(run.entries)

RunInit ==
    /\ run \in Runs
    /\ fs = InitialFS(run)
    /\ status = "running"
    /\ mainpc = "args"
    /\ idx = 1
    /\ fileChan = <<>>
    /\ closed = FALSE
    /\ cur = 0
    /\ guard = 0
    /\ wg = 0
    /\ pc = [i \in 1..Len(run.entries) |-> "none"]
    /\ result = [i \in 1..Len(run.entries) |-> ""]
    /\ stamp = [i \in 1..Len(run.entries) |-> ZeroTime]
    /\ started = [i \in 1..Len(run.entries) |-> 0]
    /\ resolved = [i \in 1..Len(run.entries) |-> 0]
    /\ copies = [i \in 1..Len(run.entries) |-> 0]
    /\ IdleResolve
    /\ IdleCopy
    /\ IdleStep

workerVars == <<pc, result, stamp, started, resolved, copies>>

\* Lines 346-350: both directories must be given.
CheckArgs ==
    /\ status = "running" /\ mainpc = "args"
    /\ IF run.from = <<>> \/ run.to = <<>>
       THEN status' = "usage" /\ mainpc' = mainpc
       ELSE status' = status /\ mainpc' = "readdir"
    /\ UNCHANGED <<run, fs, idx, fileChan, closed, cur, guard, wg, workerVars,
                   resolveVars, copyVars, stepVars>>

\* Lines 354-357: os.ReadDir, log.Fatal on its error.
ReadDir ==
    /\ status = "running" /\ mainpc = "readdir"
    /\ IF run.readDirErr
       THEN status' = "fatal" /\ mainpc' = mainpc
       ELSE status' = status /\ mainpc' = "enum"
    /\ UNCHANGED <<run, fs, idx, fileChan, closed, cur, guard, wg, workerVars,
                   resolveVars, copyVars, stepVars>>

\* A filter that compares the lowercased extension.
Eligible_anyCase(e, filter) ==
    /\ ~e.isDir
    /\ ~(filter # <<>> /\ ToLower(TrimmedExt(e.name)) # filter)
    /\ e.fault.step # "info"

\* Lines 368-383: whether the enumeration loop queues entry e.
Eligible(e, filter) ==
    /\ ~e.isDir
    /\ ~(filter # <<>> /\ TrimmedExt(e.name) # filter)
    /\ e.fault.step # "info"

\* Lines 360, 384: fileChan has the capacity len(files); a send proceeds when
\* the channel is not full.
chanHasRoom == Len(fileChan) < NumEntries

\* Lines 367-385: one iteration of the enumeration loop.  fileChan has room
\* for every entry (make(chan os.FileInfo, len(files))): the send never blocks.
Enumerate ==
    /\ status = "running" /\ mainpc = "enum" /\ idx <= NumEntries
    /\ Eligible(run.entries[idx], run.filter) => chanHasRoom
    /\ fileChan' = IF Eligible(run.entries[idx], run.filter)
                   THEN Append(fileChan, idx) ELSE fileChan
    /\ idx' = idx + 1
    /\ UNCHANGED <<run, fs, status, mainpc, closed, cur, guard, wg, workerVars,
                   resolveVars, copyVars, stepVars>>

\* A loop that may be left before it has visited every entry.
enumerationDone_early == TRUE

\* Lines 367-385: the loop over files is left after its last entry.
enumerationDone == idx > NumEntries

\* Line 386: close(fileChan) after the loop.
CloseChan ==
    /\ status = "running" /\ mainpc = "enum" /\ enumerationDone
    /\ closed' = TRUE
    /\ mainpc' = "range"
    /\ UNCHANGED <<run, fs, status, idx, fileChan, cur, guard, wg, workerVars,
                   resolveVars, copyVars, stepVars>>

\* A receive that leaves the entry in the channel.
afterReceive_keep(ch) == ch

\* Line 388: a receive takes the first queued entry out of the channel.
afterReceive(ch) == Tail(ch)

\* Lines 388-390: receive the next entry from fileChan, wg.Add(1).
Receive ==
    /\ status = "running" /\ mainpc = "range"
    /\ fileChan # <<>>
    /\ cur' = Head(fileChan)
    /\ fileChan' = afterReceive(fileChan)
    /\ wg' = wg + 1
    /\ mainpc' = "acquire"
    /\ UNCHANGED <<run, fs, status, idx, closed, guard, workerVars, resolveVars, copyVars, stepVars>>

\* A guard channel with room for one token more than maxGoroutines.
guardHasRoom_oneMore == guard < maxGoroutines + 1

\* Line 391: guard <- struct{}{} can proceed (the channel has capacity
\* maxGoroutines).
guardHasRoom == guard < maxGoroutines

\* Line 391: acquire a guard slot (blocks while the guard channel is full).
Acquire ==
    /\ status = "running" /\ mainpc = "acquire"
    /\ guardHasRoom
    /\ guard' = guard + 1
    /\ mainpc' = "go"
    /\ UNCHANGED <<run, fs, status, idx, fileChan, closed, cur, wg, workerVars,
                   resolveVars, copyVars, stepVars>>

\* Line 388: the range loop ends when the closed channel is drained.
RangeEnd ==
    /\ status = "running" /\ mainpc = "range"
    /\ fileChan = <<>> /\ closed
    /\ mainpc' = "wait"
    /\ UNCHANGED <<run, fs, status, idx, fileChan, closed, cur, guard, wg, workerVars,
                   resolveVars, copyVars, stepVars>>

\* Line 393: go func(f, ext) {...}(f, ext)
Go ==
    /\ status = "running" /\ mainpc = "go"
    /\ pc' = [pc EXCEPT ![cur] = "running"]
    /\ started' = [started EXCEPT ![cur] = @ + 1]
    /\ cur' = 0
    /\ mainpc' = "range"
    /\ UNCHANGED <<run, fs, status, idx, fileChan, closed, guard, wg, result, stamp,
                   resolved, copies, resolveVars, copyVars, stepVars>>

\* What the body of a worker (lines 397-486) does for entry e on filesystem
\* g: how it ends, timestampValue, the filesystem afterwards, and whether a
\* resolution and a copyFile call completed.
BodyResult(how, t, after, res, cp) ==
    [panic |-> FALSE, result |-> how, stamp |-> t, fs |-> after,
     resolved |-> res, copies |-> cp]

\* A folder named with the extension as it is.
DestFolder_asIs(to, t, name) ==
    to \o <<Format2006_01_02(t) \o <<"-">> \o TrimmedExt(name)>>

\* Lines 472-473: filepath.Join(to, timestamp+"-"+strings.ToLower(ext))
DestFolder(to, t, name) ==
    to \o <<Format2006_01_02(t) \o <<"-">> \o ToLower(TrimmedExt(name))>>

\* A date filter whose bounds are exclusive.
InRange_exclusive(t, lo, hi) ==
    LET i == Atoi(Format20060102(t)) IN ~(i <= lo \/ i >= hi)

\* Line 467: the date filter.
InRange(t, lo, hi) ==
    LET i == Atoi(Format20060102(t)) IN ~(i < lo \/ i > hi)

\* A goroutine that ends the process (a run-time panic).
Dies(g) == [panic |-> TRUE, result |-> "", stamp |-> ZeroTime, fs |-> g,
            resolved |-> 0, copies |-> 0]

\* An error of copyFile that ends the process (log.Fatal) rather than being
\* printed.
afterCopy_fatal(t, cp) ==
    IF cp.err # "" THEN Dies(cp.fs) ELSE BodyResult("copied", t, cp.fs, 1, 1)

\* Lines 483-486: the error of copyFile is printed, and the worker ends.
afterCopy(t, cp) ==
    BodyResult(IF cp.err # "" THEN "copyfail" ELSE "copied", t, cp.fs, 1, 1)

\* Lines 471-486, after the date filter, with timestampValue t.
mkdirAndCopy(g, e, r, t) ==
    LET src    == r.from \o <<e.name>>
        folder == DestFolder(r.to, t, e.name)
    IN
    With(IF e.fault.step = "mkdir" THEN [err |-> "EACCES", fs |-> g] ELSE MkdirAll(g, folder),
         LAMBDA made :
         IF made.err # "" THEN BodyResult("mkdirfail", t, made.fs, 1, 0)
         ELSE With(copyFile(made.fs, src, folder \o <<e.name>>, e.fault, Now), LAMBDA cp :
              afterCopy(t, cp)))

workerBody(g, e, r) ==
    IF Stat(g, r.from \o <<e.name>>).err # "" \/ e.fault.step = "openfile"
    THEN BodyResult("openfail", ZeroTime, g, 0, 0)
    ELSE With(resolve(e.content, e.mtime, r.localOff), LAMBDA res :
         IF res.panic
         THEN Dies(g)
         ELSE IF ~InRange(res.t, r.start, r.end)
         THEN BodyResult("filtered", res.t, g, 1, 0)
         ELSE mkdirAndCopy(g, e, r, res.t))

\* Lines 393-487: the goroutine of entry i from its start to its end: the
\* body, then the deferred calls in their order: file.Close(), <-guard (the
\* guard slot is released), wg.Done().  A panic of the goroutine runs its
\* deferred calls too and then ends the process.
Worker(i) ==
    /\ status = "running" /\ pc[i] = "running"
    /\ \E b \in {workerBody(fs, run.entries[i], run)} :
       IF b.panic
       THEN /\ status' = "panic"
            /\ guard' = guard - 1
            /\ wg' = wg - 1
            /\ pc' = [pc EXCEPT ![i] = "done"]
            /\ UNCHANGED <<fs, result, stamp, started, resolved, copies>>
       ELSE /\ status' = status
            /\ fs' = b.fs
            /\ result' = [result EXCEPT ![i] = b.result]
            /\ stamp' = [stamp EXCEPT ![i] = b.stamp]
            /\ resolved' = [resolved EXCEPT ![i] = @ + b.resolved]
            /\ copies' = [copies EXCEPT ![i] = @ + b.copies]
            /\ guard' = guard - 1
            /\ wg' = wg - 1
            /\ pc' = [pc EXCEPT ![i] = "done"]
            /\ UNCHANGED started
    /\ UNCHANGED <<run, mainpc, idx, fileChan, closed, cur, resolveVars, copyVars, stepVars>>

\* A wait that returns at once.
waitReturns_atOnce == TRUE

\* Line 490: wg.Wait() returns when the counter is zero.
waitReturns == wg = 0

\* Lines 490-491: wg.Wait(), then main returns.
Wait ==
    /\ status = "running" /\ mainpc = "wait"
    /\ waitReturns
    /\ mainpc' = "returned"
    /\ status' = "exit0"
    /\ UNCHANGED <<run, fs, idx, fileChan, closed, cur, guard, wg, workerVars,
                   resolveVars, copyVars, stepVars>>

Init == RunInit

Next ==
    \/ CheckArgs
    \/ ReadDir
    \/ Enumerate
    \/ CloseChan
    \/ Receive
    \/ Acquire
    \/ RangeEnd
    \/ Go
    \/ \E i \in 1..NumEntries : Worker(i)
    \/ Wait

Spec == Init /\ [][Next]_vars

\* The steps of the main goroutine.
Main ==
    \/ CheckArgs
    \/ ReadDir
    \/ Enumerate
    \/ CloseChan
    \/ Receive
    \/ Acquire
    \/ RangeEnd
    \/ Go
    \/ Wait

\* The run under a fair scheduler, every file I/O call returning: a goroutine
\* that can take a step eventually takes one.
FairSpec ==
    /\ Spec
    /\ WF_vars(Main)
    /\ \A i \in 1..NumFiles : WF_vars(i \in DOMAIN pc /\ Worker(i))

\* ------------------------------------------------------------------------
\* The workers, statement by statement
\* ------------------------------------------------------------------------
\* The same goroutines as Worker(i), each followed through its statements, so
\* that the statements of different workers interleave: the position at[i],
\* the open handles hSrc[i] and hDst[i], and the locals loc[i] =
\*   err    the error copyFileContents is about to return ("" for nil)
\*   lvl    the prefix of the folder path the os.MkdirAll call is at
\*   mkErr  the error of the Mkdir call of os.MkdirAll
\*   mtime  sfi.ModTime() as copyFile passed it on
\*   in     the inode the handle in is open on
\*   out    the inode the handle out is open on
\*   panicking  the goroutine panicked and runs its deferred calls
\* The start is the state in which main has started a worker for each of
\* NumWorkers files and waits at wg.Wait().

NumWorkers == 2

\* The files of the directory: the first is of one of these kinds, the others
\* are plain files of January 2nd.
StepShapes ==
    { [mtime |-> Jan2, content |-> Plain, fault |-> NoFault],
      [mtime |-> Jan2, content |-> ExifDate(<<2021, 4, 12, 13, 14, 15>>), fault |-> NoFault],
      [mtime |-> Jun1, content |-> Plain, fault |-> NoFault],
      [mtime |-> Jan2, content |-> NonTextEntry.content, fault |-> NoFault] }
    \cup { [mtime |-> Jan2, content |-> Plain, fault |-> Fault(st)] :
             st \in {"openfile", "mkdir", "open", "create", "copy", "chtimes",
                     "sync", "close"} }

StepListing(shape) ==
    [i \in 1..NumWorkers |->
        EntryRec(Pad2(i) \o <<".", "j", "p", "g">>, FALSE,
                 IF i = 1 THEN shape.mtime ELSE Jan2,
                 IF i = 1 THEN shape.content ELSE Plain,
                 IF i = 1 THEN shape.fault ELSE NoFault)]

StepRuns ==
    { Run(FromDir, ToDir, <<>>, 0, 20220102, 0, FALSE, StepListing(shape)) :
        shape \in StepShapes }

\* The folder of the plain files of January 2nd.
Jan2Folder == DestFolder(ToDir, [days |-> Jan2.days, secs |-> Jan2.secs, off |-> 0],
                         <<"x", ".", "j", "p", "g">>)

\* The filesystem before the run: the destination directory exists, or does
\* not, or holds a regular file where the folder of January 2nd would be.
StepFileSystems(r) ==
    LET ready == InitialFS(r)
        bare  == [ready EXCEPT !.ent = [p \in DOMAIN ready.ent \ {r.to} |-> ready.ent[p]]]
        inWay == createNew(ready, Jan2Folder, Now).fs
    IN  {ready, bare, inWay}

NoLocals == [err |-> "", lvl |-> 0, mkErr |-> "", mtime |-> [days |-> 0, secs |-> 0],
             in |-> <<>>, out |-> <<>>, panicking |-> FALSE]

StepInit ==
    /\ run \in StepRuns
    /\ fs \in StepFileSystems(run)
    /\ status = "running"
    /\ mainpc = "wait"
    /\ idx = NumWorkers + 1
    /\ fileChan = <<>>
    /\ closed = TRUE
    /\ cur = 0
    /\ guard = NumWorkers
    /\ wg = NumWorkers
    /\ pc = [i \in 1..NumWorkers |-> "running"]
    /\ result = [i \in 1..NumWorkers |-> ""]
    /\ stamp = [i \in 1..NumWorkers |-> ZeroTime]
    /\ started = [i \in 1..NumWorkers |-> 1]
    /\ resolved = [i \in 1..NumWorkers |-> 0]
    /\ copies = [i \in 1..NumWorkers |-> 0]
    /\ at = [i \in 1..NumWorkers |-> "open"]
    /\ hSrc = [i \in 1..NumWorkers |-> 0]
    /\ hDst = [i \in 1..NumWorkers |-> 0]
    /\ loc = [i \in 1..NumWorkers |-> NoLocals]
    /\ IdleResolve
    /\ IdleCopy

mainVars == <<run, mainpc, idx, fileChan, closed, cur, started>>

At(i, where) == status = "running" /\ pc[i] = "running" /\ at[i] = where

Goto(i, where) == at' = [at EXCEPT ![i] = where]

Src(i) == run.from \o <<run.entries[i].name>>

Folder(i) == DestFolder(run.to, stamp[i], run.entries[i].name)

\* A destination named by the folder and the extension alone.
Dst_byExt(i) == Folder(i) \o <<TrimmedExt(run.entries[i].name)>>

\* Line 481: toFile := filepath.Join(folder, f.Name())
Dst(i) == Folder(i) \o <<run.entries[i].name>>

FaultAt(i, st) == run.entries[i].fault.step = st

\* Lines 398-403: os.Open(path); on an error it is logged and the worker
\* returns (the deferred file.Close is not registered yet), else the handle
\* file is open until the worker ends.
OpenSource(i) ==
    /\ At(i, "open")
    /\ IF Stat(fs, Src(i)).err # "" \/ FaultAt(i, "openfile")
       THEN /\ result' = [result EXCEPT ![i] = "openfail"]
            /\ Goto(i, "release")
            /\ UNCHANGED hSrc
       ELSE /\ hSrc' = [hSrc EXCEPT ![i] = @ + 1]
            /\ Goto(i, "resolve")
            /\ UNCHANGED result
    /\ UNCHANGED <<fs, status, guard, wg, pc, stamp, resolved, copies, hDst, loc,
                   mainVars, resolveVars, copyVars>>

\* Lines 405-469: the timestamp is resolved (a panic goes to the deferred
\* calls, after which the process ends), then the date filter returns (to the
\* deferred calls) or lets the file pass.
ResolveStep(i) ==
    /\ At(i, "resolve")
    /\ \E res \in {resolve(run.entries[i].content, run.entries[i].mtime, run.localOff)} :
       IF res.panic
       THEN /\ loc' = [loc EXCEPT ![i].panicking = TRUE]
            /\ Goto(i, "closefile")
            /\ UNCHANGED <<stamp, resolved, result>>
       ELSE /\ stamp' = [stamp EXCEPT ![i] = res.t]
            /\ resolved' = [resolved EXCEPT ![i] = @ + 1]
            /\ IF ~InRange(res.t, run.start, run.end)
               THEN /\ result' = [result EXCEPT ![i] = "filtered"]
                    /\ Goto(i, "closefile")
                    /\ UNCHANGED loc
               ELSE /\ loc' = [loc EXCEPT ![i].lvl =
                                  Len(DestFolder(run.to, res.t, run.entries[i].name))]
                    /\ Goto(i, "mkstat")
                    /\ UNCHANGED result
    /\ UNCHANGED <<fs, status, guard, wg, pc, copies, hSrc, hDst, mainVars,
                   resolveVars, copyVars>>

\* os.MkdirAll(folder), line 474, call by call.  The call for the prefix of
\* length lvl: Stat; a directory is success, another file is ENOTDIR; else
\* the call for the parent, then Mkdir, and on its error Lstat: a directory
\* that is there after all is success.  The fault "mkdir" of the environment
\* denies every call on the folder itself.
Denied(i) == FaultAt(i, "mkdir") /\ loc[i].lvl = Len(Folder(i))

\* The call for the prefix lvl returned nil.
MkReturnsNil(i) ==
    IF loc[i].lvl = Len(Folder(i))
    THEN /\ Goto(i, "copystat")
         /\ UNCHANGED loc
    ELSE /\ Goto(i, "mkmkdir")
         /\ loc' = [loc EXCEPT ![i].lvl = @ + 1]

\* The call returned an error: every caller returns it, the worker logs it
\* and returns (lines 475-477).
MkReturnsErr(i) ==
    /\ result' = [result EXCEPT ![i] = "mkdirfail"]
    /\ Goto(i, "closefile")
    /\ UNCHANGED loc

MkStat(i) ==
    /\ At(i, "mkstat")
    /\ \E st \in {Stat(fs, SubSeq(Folder(i), 1, loc[i].lvl))} :
       IF st.err = "" /\ ~Denied(i)
       THEN IF st.kind = "dir"
            THEN MkReturnsNil(i) /\ UNCHANGED result
            ELSE MkReturnsErr(i)
       ELSE /\ IF loc[i].lvl > 1
               THEN /\ loc' = [loc EXCEPT ![i].lvl = @ - 1]
                    /\ Goto(i, "mkstat")
               ELSE /\ Goto(i, "mkmkdir")
                    /\ UNCHANGED loc
            /\ UNCHANGED result
    /\ UNCHANGED <<fs, status, guard, wg, pc, stamp, resolved, copies, hSrc, hDst,
                   mainVars, resolveVars, copyVars>>

\* The system call mkdir(p).
Mkdir(g, p) ==
    LET e == Lookup(g, p, 1) IN
    IF e # "" THEN [err |-> e, fs |-> g]
    ELSE IF Exists(g, p) THEN [err |-> "EEXIST", fs |-> g]
    ELSE [err |-> "",
          fs  |-> [g EXCEPT !.ent = [r \in DOMAIN g.ent \cup {p} |->
                     IF r = p THEN [kind |-> "dir", ino |-> <<>>] ELSE g.ent[r]]]]

MkMkdir(i) ==
    /\ At(i, "mkmkdir")
    /\ \E made \in {IF Denied(i) THEN [err |-> "EACCES", fs |-> fs]
                    ELSE Mkdir(fs, SubSeq(Folder(i), 1, loc[i].lvl))} :
       /\ fs' = made.fs
       /\ IF made.err = ""
          THEN MkReturnsNil(i)
          ELSE /\ Goto(i, "mklstat")
               /\ loc' = [loc EXCEPT ![i].mkErr = made.err]
    /\ UNCHANGED <<status, guard, wg, pc, result, stamp, resolved, copies, hSrc, hDst,
                   mainVars, resolveVars, copyVars>>

\* A re-check that never finds the directory.
thereAfterAll_never(st) == FALSE

\* After a failed Mkdir: err1 == nil && dir.IsDir()
thereAfterAll(st) == st.err = "" /\ st.kind = "dir"

MkLstat(i) ==
    /\ At(i, "mklstat")
    /\ \E st \in {IF Denied(i) THEN [err |-> "EACCES", kind |-> ""]
                  ELSE Stat(fs, SubSeq(Folder(i), 1, loc[i].lvl))} :
       IF thereAfterAll(st)
       THEN MkReturnsNil(i) /\ UNCHANGED result
       ELSE MkReturnsErr(i)
    /\ UNCHANGED <<fs, status, guard, wg, pc, stamp, resolved, copies, hSrc, hDst,
                   mainVars, resolveVars, copyVars>>

\* Lines 263-285, copyFile up to its call of copyFileContents: an error or
\* the same file returns to line 483.
CfStat(i) ==
    /\ At(i, "copystat")
    /\ \E sfi \in {Stat(fs, Src(i))}, dfi \in {Stat(fs, Dst(i))} :
       LET e == IF sfi.err # "" THEN sfi.err
                ELSE IF ~IsRegular(sfi) THEN "Non-regular source file"
                ELSE IF dfi.err # "" /\ dfi.err # "ENOENT" THEN dfi.err
                ELSE IF dfi.err = "" /\ ~IsRegular(dfi) THEN "Non-regular destination file"
                ELSE ""
       IN
       IF e # "" \/ (dfi.err = "" /\ SameFile(sfi, dfi))
       THEN /\ loc' = [loc EXCEPT ![i].err = e]
            /\ Goto(i, "report")
       ELSE /\ loc' = [loc EXCEPT ![i].mtime = sfi.modTime]
            /\ Goto(i, "cfcopen")
    /\ UNCHANGED <<fs, status, guard, wg, pc, result, stamp, resolved, copies, hSrc,
                   hDst, mainVars, resolveVars, copyVars>>

\* Lines 292-296: in, err := os.Open(src); defer in.Close()
CfcOpen(i) ==
    /\ At(i, "cfcopen")
    /\ \E in \in {Stat(fs, Src(i))} :
       IF in.err # "" \/ FaultAt(i, "open")
       THEN /\ loc' = [loc EXCEPT ![i].err = IF in.err # "" THEN in.err ELSE "EACCES"]
            /\ Goto(i, "report")
            /\ UNCHANGED hSrc
       ELSE /\ loc' = [loc EXCEPT ![i].in = in.ino]
            /\ hSrc' = [hSrc EXCEPT ![i] = @ + 1]
            /\ Goto(i, "cfccreate")
    /\ UNCHANGED <<fs, status, guard, wg, pc, result, stamp, resolved, copies, hDst,
                   mainVars, resolveVars, copyVars>>

\* Lines 297-306: out, err := os.Create(dst); on an error the deferred
\* in.Close runs, else the Close of out is deferred.
CfcCreate(i) ==
    /\ At(i, "cfccreate")
    /\ \E out \in {IF FaultAt(i, "create") THEN [err |-> "EACCES", ino |-> <<>>, fs |-> fs]
                   ELSE Create(fs, Dst(i), Now)} :
       IF out.err # ""
       THEN /\ loc' = [loc EXCEPT ![i].err = out.err]
            /\ Goto(i, "closein")
            /\ UNCHANGED <<fs, hDst>>
       ELSE /\ fs' = out.fs
            /\ loc' = [loc EXCEPT ![i].out = out.ino]
            /\ hDst' = [hDst EXCEPT ![i] = @ + 1]
            /\ Goto(i, "cfccopy")
    /\ UNCHANGED <<status, guard, wg, pc, result, stamp, resolved, copies, hSrc,
                   mainVars, resolveVars, copyVars>>

\* Lines 307-309: io.Copy(out, in)
CfcCopy(i) ==
    /\ At(i, "cfccopy")
    /\ \E copied \in {ioCopy(fs, loc[i].in, loc[i].out, run.entries[i].fault, Now)} :
       /\ fs' = copied.fs
       /\ loc' = [loc EXCEPT ![i].err = copied.err]
       /\ Goto(i, IF copied.err # "" THEN "closeout" ELSE "cfcchtimes")
    /\ UNCHANGED <<status, guard, wg, pc, result, stamp, resolved, copies, hSrc, hDst,
                   mainVars, resolveVars, copyVars>>

\* Lines 312-314: os.Chtimes(dst, mtime, mtime)
CfcChtimes(i) ==
    /\ At(i, "cfcchtimes")
    /\ \E stamped \in {IF FaultAt(i, "chtimes") THEN [err |-> "EPERM", fs |-> fs]
                       ELSE Chtimes(fs, Dst(i), loc[i].mtime)} :
       /\ fs' = stamped.fs
       /\ loc' = [loc EXCEPT ![i].err = stamped.err]
       /\ Goto(i, IF stamped.err # "" THEN "closeout" ELSE "cfcsync")
    /\ UNCHANGED <<status, guard, wg, pc, result, stamp, resolved, copies, hSrc, hDst,
                   mainVars, resolveVars, copyVars>>

\* Line 315: err = out.Sync(); return
CfcSync(i) ==
    /\ At(i, "cfcsync")
    /\ loc' = [loc EXCEPT ![i].err = IF FaultAt(i, "sync") THEN "EIO" ELSE ""]
    /\ Goto(i, "closeout")
    /\ UNCHANGED <<fs, status, guard, wg, pc, result, stamp, resolved, copies, hSrc,
                   hDst, mainVars, resolveVars, copyVars>>

\* A Close that leaves the handle open.
afterClose_leak(n) == n

\* Lines 296, 302, 403: Close() gives the handle back, whatever it returns.
afterClose(n) == n - 1

\* Lines 301-306, deferred: out.Close(); its error is returned when there is
\* no earlier one.
CloseOut(i) ==
    /\ At(i, "closeout")
    /\ hDst' = [hDst EXCEPT ![i] = afterClose(@)]
    /\ loc' = [loc EXCEPT ![i].err =
                  IF @ = "" /\ FaultAt(i, "close") THEN "EIO" ELSE @]
    /\ Goto(i, "closein")
    /\ UNCHANGED <<fs, status, guard, wg, pc, result, stamp, resolved, copies, hSrc,
                   mainVars, resolveVars, copyVars>>

\* Line 296, deferred: in.Close()
CloseIn(i) ==
    /\ At(i, "closein")
    /\ hSrc' = [hSrc EXCEPT ![i] = afterClose(@)]
    /\ Goto(i, "report")
    /\ UNCHANGED <<fs, status, guard, wg, pc, result, stamp, resolved, copies, hDst,
                   loc, mainVars, resolveVars, copyVars>>

\* Lines 481-486: copyFile returned; its error is printed.
Report(i) ==
    /\ At(i, "report")
    /\ result' = [result EXCEPT ![i] = IF loc[i].err # "" THEN "copyfail" ELSE "copied"]
    /\ copies' = [copies EXCEPT ![i] = @ + 1]
    /\ Goto(i, "closefile")
    /\ UNCHANGED <<fs, status, guard, wg, pc, stamp, resolved, hSrc, hDst, loc,
                   mainVars, resolveVars, copyVars>>

\* Line 403, deferred: file.Close()
CloseFile(i) ==
    /\ At(i, "closefile")
    /\ hSrc' = [hSrc EXCEPT ![i] = afterClose(@)]
    /\ Goto(i, "release")
    /\ UNCHANGED <<fs, status, guard, wg, pc, result, stamp, resolved, copies, hDst,
                   loc, mainVars, resolveVars, copyVars>>

\* Line 395, deferred: <-guard
Release(i) ==
    /\ At(i, "release")
    /\ guard' = guard - 1
    /\ Goto(i, "done")
    /\ UNCHANGED <<fs, status, wg, pc, result, stamp, resolved, copies, hSrc, hDst,
                   loc, mainVars, resolveVars, copyVars>>

\* Line 394, deferred: wg.Done(); the goroutine ends, and with it the
\* process when the goroutine is panicking.
Done(i) ==
    /\ At(i, "done")
    /\ wg' = wg - 1
    /\ pc' = [pc EXCEPT ![i] = "done"]
    /\ status' = IF loc[i].panicking THEN "panic" ELSE status
    /\ Goto(i, "ended")
    /\ UNCHANGED <<fs, guard, result, stamp, resolved, copies, hSrc, hDst,
                   loc, mainVars, resolveVars, copyVars>>

StepNext ==
    \/ \E i \in 1..NumEntries : OpenSource(i)
    \/ \E i \in 1..NumEntries : ResolveStep(i)
    \/ \E i \in 1..NumEntries : MkStat(i)
    \/ \E i \in 1..NumEntries : MkMkdir(i)
    \/ \E i \in 1..NumEntries : MkLstat(i)
    \/ \E i \in 1..NumEntries : CfStat(i)
    \/ \E i \in 1..NumEntries : CfcOpen(i)
    \/ \E i \in 1..NumEntries : CfcCreate(i)
    \/ \E i \in 1..NumEntries : CfcCopy(i)
    \/ \E i \in 1..NumEntries : CfcChtimes(i)
    \/ \E i \in 1..NumEntries : CfcSync(i)
    \/ \E i \in 1..NumEntries : CloseOut(i)
    \/ \E i \in 1..NumEntries : CloseIn(i)
    \/ \E i \in 1..NumEntries : Report(i)
    \/ \E i \in 1..NumEntries : CloseFile(i)
    \/ \E i \in 1..NumEntries : Release(i)
    \/ \E i \in 1..NumEntries : Done(i)
    \/ Wait

StepSpec == StepInit /\ [][StepNext]_vars

\* ------------------------------------------------------------------------
\* Properties of the run
\* ------------------------------------------------------------------------

\* The workers started and not yet finished (a worker releases its guard slot
\* as it finishes).
InFlight == {i \in 1..NumEntries : pc[i] = "running"}

\* The entries the enumeration loop queues.
Candidates == {i \in 1..NumEntries : Eligible(run.entries[i], run.filter)}

Failures == {"openfail", "mkdirfail", "copyfail"}

\* C1: at every moment at most maxGoroutines (10) workers are started and have
\* not yet released their guard slot, and every such worker holds a slot the
\* dispatcher acquired before starting it: the slots taken are those of the
\* workers in flight plus the one acquired for the worker about to start.
C1_PoolBound ==
    /\ Cardinality(InFlight) <= maxGoroutines
    /\ maxGoroutines = 10
    /\ guard = Cardinality(InFlight) + (IF mainpc = "go" THEN 1 ELSE 0)
    /\ \A i \in 1..NumEntries : pc[i] # "none" => started[i] >= 1

\* The pool is full and the dispatcher is blocked with one more entry.
C1_Witness ==
    /\ Cardinality(InFlight) = maxGoroutines
    /\ guard = maxGoroutines
    /\ mainpc = "acquire"
    /\ cur \in Candidates

\* C2: the run never returns while a dispatched worker is in flight: once
\* wg.Wait() has let main pass, every worker that was dispatched has finished
\* (and the entry received last has been dispatched).
C2_WaitForWorkers ==
    mainpc = "returned" =>
        /\ InFlight = {}
        /\ cur = 0
        /\ \A i \in 1..NumEntries : started[i] > 0 => pc[i] = "done"

\* main has returned from a run of more workers than the pool holds, some of
\* which ended early.
C2_Witness ==
    /\ mainpc = "returned"
    /\ Cardinality({i \in 1..NumEntries : started[i] > 0 /\ pc[i] = "done"}) > maxGoroutines
    /\ \E i \in 1..NumEntries : result[i] = "openfail"
    /\ \E i \in 1..NumEntries : result[i] = "filtered"

FailingStep(i) ==
    /\ run.entries[i].fault.step \in {"openfile", "mkdir", "open", "create", "copy",
                                      "sync", "close", "chtimes"}
    /\ Worker(i)

\* The running process can take a step: the dispatcher can, or it waits for
\* a worker in flight.
NotStuck ==
    status = "running" =>
        \/ mainpc \in {"args", "readdir", "go"}
        \/ mainpc = "enum" /\ (idx > NumEntries \/ chanHasRoom)
        \/ mainpc = "range" /\ (fileChan # <<>> \/ closed)
        \/ mainpc = "acquire" /\ (guard < maxGoroutines \/ InFlight # {})
        \/ mainpc = "wait" /\ (wg = 0 \/ InFlight # {})

\* C4: a per-file failure (open, folder creation, any failure of copyFile,
\* the failure to set the modification time included) is only reported: the
\* step in which it happens leaves the process running, ends that worker
\* alone, gives back its guard slot and its wait-group count and touches no
\* other worker nor the dispatcher; and no step leaves the running process
\* stuck before its normal end.
C4_FailureIsolated ==
    [][/\ \A i \in 1..NumEntries :
            FailingStep(i) =>
               /\ status' = "running"
               /\ pc'[i] = "done"
               /\ result'[i] \in Failures \cup {"filtered"}
               /\ guard' = guard - 1 /\ wg' = wg - 1
               /\ mainpc' = mainpc /\ fileChan' = fileChan /\ cur' = cur
               /\ \A j \in 1..NumEntries \ {i} :
                     pc'[j] = pc[j] /\ result'[j] = result[j]
       /\ NotStuck']_vars

\* The run has come to its normal end although a worker failed in each of
\* the ways, and the files without a failure were copied.
C4_Witness ==
    /\ status = "exit0" /\ mainpc = "returned"
    /\ \A k \in Failures : \E i \in Candidates : result[i] = k
    /\ \E i \in Candidates :
          /\ run.entries[i].fault.step = "chtimes" /\ result[i] = "copyfail"
    /\ \E i \in Candidates : result[i] = "copied"

\* ------------------------------------------------------------------------
\* Properties of the timestamp resolution
\* ------------------------------------------------------------------------

\* The value of tag n in the first IFD of the resolved file that has it.
Found(n) ==
    LET ifds == rIn.c.ifds
        has  == {i \in 1..Len(ifds) : ifds[i][n].kind # "absent"}
    IN  IF has = {} THEN NoTag
        ELSE ifds[CHOOSE i \in has : \A j \in has : i <= j][n]

\* The offset tag of the file: OffsetTimeOriginal, or else OffsetTime.
OffsetFound ==
    IF Found("OffsetTimeOriginal").kind \in {"absent", "bad"}
    THEN Found("OffsetTime") ELSE Found("OffsetTimeOriginal")

\* The file holds the well-formed capture date of reading r.
DateFound(r) ==
    rIn.c.exif = "ok" /\ Found("DateTimeOriginal") = Ascii(DateString(r))

\* The wall clock reading <<y, m, d, h, mi, s>> of t in its location.
WallClock(t) ==
    LET sod == (t.secs + t.off) % SecondsPerDay
    IN  WallDate(t) \o <<sod \div 3600, (sod % 3600) \div 60, sod % 60>>

\* C5 as stated: the resolution never fails, whatever the content: also with
\* a DateTimeOriginal or offset tag whose value cannot be decoded or is not
\* text it completes, without a panic of the worker.
C5_NeverFails == rOut.done => ~rOut.r.panic

C7_MalformedOffsetLocal ==
    rOut.done =>
        \A r \in Readings, m \in MalformedOffsets :
            (DateFound(r) /\ OffsetFound = Ascii(m)) =>
               /\ ~rOut.r.panic
               /\ rOut.r.source # "mtime"
               /\ WallClock(rOut.r.t) = r
               /\ rOut.r.t.off = rIn.localOff

\* ------------------------------------------------------------------------
\* Properties of the copier
\* ------------------------------------------------------------------------

\* The copied destination of entry i.
DestPath(i) ==
    DestFolder(run.to, stamp[i], run.entries[i].name) \o <<run.entries[i].name>>

\* A worker resolved its timestamp from the metadata of its file, to an
\* instant that is not the modification time of the file.
FromMetadata(i) == ~SameInstant(stamp[i], run.entries[i].mtime)

\* C8 as stated: every successfully copied destination file has the
\* timestamp resolved for its source as its modification time.
C8_MtimeIsResolved ==
    \A i \in 1..NumEntries :
        result[i] = "copied" =>
            /\ Stat(fs, DestPath(i)).err = ""
            /\ SameInstant(Stat(fs, DestPath(i)).modTime, stamp[i])

\* C8, amended: every successfully copied destination file is a regular file
\* whose modification time is the modification time of its source file
\* (copyFile hands sfi.ModTime() on), whatever timestamp was resolved; the
\* resolved timestamp names the folder.
C8_MtimeIsSourceMtime ==
    \A i \in 1..NumEntries :
        result[i] = "copied" =>
            LET d == Stat(fs, DestPath(i))
                f == Stat(fs, run.from \o <<run.entries[i].name>>)
            IN  /\ d.err = "" /\ d.kind = "file"
                /\ f.err = "" /\ f.modTime = run.entries[i].mtime
                /\ SameInstant(d.modTime, f.modTime)

\* A file whose capture date is not its modification time has been copied.
C8_Witness ==
    \E i \in 1..NumEntries :
        /\ result[i] = "copied"
        /\ FromMetadata(i)
        /\ Stat(fs, DestPath(i)).modTime = run.entries[i].mtime

\* The call of the copier: its source and its destination as os.Stat sees
\* them before the call.
SrcBefore == Stat(cIn.fs, cIn.src)

DstBefore == Stat(cIn.fs, cIn.dst)

\* The source is a regular file, the destination is absent or another
\* regular file.
ValidPair ==
    /\ SrcBefore.err = "" /\ SrcBefore.kind = "file"
    /\ \/ DstBefore.err = "ENOENT"
       \/ DstBefore.err = "" /\ DstBefore.kind = "file" /\ DstBefore.ino # SrcBefore.ino

\* After the call the destination is a regular file with the bytes and the
\* modification time that the source had.
DstIsCopy ==
    LET d == Stat(cOut.r.fs, cIn.dst) IN
    /\ d.err = "" /\ d.kind = "file"
    /\ cOut.r.fs.data[d.ino] = cIn.fs.data[SrcBefore.ino]
    /\ d.modTime = SrcBefore.modTime

\* C9 as stated: for every valid pair copyFile returns no error (without any
\* fault of the environment) and the destination is a copy.
C9_ValidPairCopies ==
    (cOut.done /\ cFault = NoFault /\ ValidPair) =>
        cOut.r.err = "" /\ DstIsCopy

\* C9, amended: for every valid pair copyFile returns no error when the
\* directory of the destination exists and no I/O step fails; and whenever
\* it returns no error the destination holds exactly the bytes of the source
\* (what it held before is replaced, also by an empty source) and has the
\* modification time of the source.
C9_CopyWhenNoError ==
    (cOut.done /\ ValidPair) =>
        /\ (cFault = NoFault /\ Stat(cIn.fs, Parent(cIn.dst)).kind = "dir") => cOut.r.err = ""
        /\ cOut.r.err = "" => DstIsCopy

\* An empty source has replaced a destination that held bytes and another
\* modification time.
C9_Witness ==
    /\ cOut.done /\ cFault = NoFault /\ ValidPair
    /\ cOut.r.err = ""
    /\ DstBefore.err = "" /\ cIn.fs.data[DstBefore.ino] # <<>>
    /\ DstBefore.modTime # SrcBefore.modTime
    /\ cIn.fs.data[SrcBefore.ino] = <<>>
    /\ cOut.r.fs.data[DstBefore.ino] = <<>>

\* Source and destination are the same file: the same path, or two names of
\* one file.
SameEntity ==
    /\ SrcBefore.err = "" /\ SrcBefore.kind = "file"
    /\ DstBefore.err = "" /\ DstBefore.ino = SrcBefore.ino

\* C10: copyFile on one and the same file returns success and performs no
\* I/O: whatever step of the environment would fail, the filesystem (content,
\* modification time, entries) is as before.
C10_SameFileNoop ==
    (cOut.done /\ SameEntity) => (cOut.r.err = "" /\ cOut.r.fs = cIn.fs)

\* Two names of one file with bytes, and an environment in which a create
\* would fail.
C10_Witness ==
    /\ cOut.done /\ SameEntity
    /\ cIn.src # cIn.dst
    /\ cIn.fs.data[SrcBefore.ino] # <<>>
    /\ cFault.step = "create"
    /\ cOut.r.err = "" /\ cOut.r.fs = cIn.fs

\* C11: when a precondition of copyFile fails (the source does not exist, the
\* source is no regular file, the existing destination is no regular file)
\* copyFile returns that error and changes nothing: whatever the environment
\* would do, nothing is created, truncated or written.
C11_PreconditionFailure ==
    cOut.done =>
        /\ SrcBefore.err # "" =>
              /\ cOut.r.err = SrcBefore.err /\ cOut.r.fs = cIn.fs
              /\ ~Exists(cIn.fs, cIn.src) => cOut.r.err \in {"ENOENT", "ENOTDIR"}
        /\ (SrcBefore.err = "" /\ SrcBefore.kind # "file") =>
              cOut.r.err = "Non-regular source file" /\ cOut.r.fs = cIn.fs
        /\ (SrcBefore.err = "" /\ SrcBefore.kind = "file"
              /\ DstBefore.err = "" /\ DstBefore.kind # "file") =>
              cOut.r.err = "Non-regular destination file" /\ cOut.r.fs = cIn.fs

\* A directory as the source of a copy onto a regular file with bytes.
C11_Witness ==
    /\ cOut.done /\ cFault = NoFault
    /\ SrcBefore.err = "" /\ SrcBefore.kind = "dir"
    /\ DstBefore.err = "" /\ DstBefore.kind = "file"
    /\ cIn.fs.data[DstBefore.ino] # <<>>
    /\ cOut.r.err = "Non-regular source file"
    /\ cOut.r.fs = cIn.fs

\* ------------------------------------------------------------------------
\* Properties of the filters and of the layout of the destination
\* ------------------------------------------------------------------------

\* The key YYYYMMDD of the date of t in its location.
Key(t) == WallDate(t)[1] * 10000 + WallDate(t)[2] * 100 + WallDate(t)[3]

\* The regular files below the destination directory.
DestFiles ==
    {p \in DOMAIN fs.ent :
        /\ fs.ent[p].kind = "file"
        /\ Len(p) > Len(run.to) /\ SubSeq(p, 1, Len(run.to)) = run.to
        /\ p \notin {run.from \o <<run.entries[i].name>> : i \in 1..NumEntries}}

\* Every file below the destination was written for a candidate whose key
\* is within [start, end].
DestFilesInRange ==
    DestFiles \subseteq
        {DestPath(i) : i \in {j \in 1..NumEntries :
                                 /\ result[j] \in {"copied", "copyfail"}
                                 /\ run.start <= Key(stamp[j]) /\ Key(stamp[j]) <= run.end}}

\* C12: a worker that has resolved its timestamp discards its candidate if
\* and only if the key YYYYMMDD of the timestamp is smaller than start or
\* greater than end; for a discarded candidate no copy is attempted and no
\* folder of its date exists below the destination; every file below the
\* destination has a key within [start, end].
C12_DateFilter ==
    /\ \A i \in 1..NumEntries :
          (result[i] # "" /\ resolved[i] = 1) =>
             /\ result[i] = "filtered" <=>
                   (Key(stamp[i]) < run.start \/ Key(stamp[i]) > run.end)
             /\ result[i] = "filtered" =>
                   /\ copies[i] = 0
                   /\ ~Exists(fs, DestFolder(run.to, stamp[i], run.entries[i].name))
    /\ DestFilesInRange

\* A run with a date range has ended: a file dated on the first day of the
\* range and one dated on the last day are copied, one dated before the range
\* and one dated after it are discarded.
C12_Witness ==
    /\ mainpc = "returned" /\ run.start > 0 /\ run.end < DefaultEnd
    /\ \E i \in Candidates : result[i] = "copied" /\ Key(stamp[i]) = run.start
    /\ \E i \in Candidates : result[i] = "copied" /\ Key(stamp[i]) = run.end
    /\ \E i \in Candidates : result[i] = "filtered" /\ Key(stamp[i]) < run.start
    /\ \E i \in Candidates : result[i] = "filtered" /\ Key(stamp[i]) > run.end

\* The text after the last dot of a name (empty without a dot).
ExtOf(name) ==
    LET dots == {k \in 1..Len(name) : name[k] = "."} IN
    IF dots = {} THEN <<>>
    ELSE SubSeq(name, (CHOOSE k \in dots : \A j \in dots : j <= k) + 1, Len(name))

\* Entry i is no directory and passes the extension filter.
Matches(i) ==
    /\ ~run.entries[i].isDir
    /\ run.filter = <<>> \/ ExtOf(run.entries[i].name) = run.filter

\* f.Info() succeeds for entry i.
InfoOk(i) == run.entries[i].fault.step # "info"

\* C13 as stated: an entry is dispatched to a worker if and only if it is no
\* directory and passes the extension filter.
C13_DispatchedIffMatches ==
    mainpc = "returned" =>
        \A i \in 1..NumEntries : started[i] = 1 <=> Matches(i)

\* C13, amended: an entry is dispatched to a worker if and only if it is no
\* directory, passes the extension filter (no filter, or the text after the
\* last dot equal to the filter, case included) and its Info can be
\* obtained; an entry that does not match is never opened, never copied and
\* has no file below the destination.
C13_DispatchedIffMatchesAndInfo ==
    \A i \in 1..NumEntries :
        /\ started[i] >= 1 => (Matches(i) /\ InfoOk(i))
        /\ mainpc = "returned" => (started[i] = 1 <=> (Matches(i) /\ InfoOk(i)))
        /\ ~Matches(i) =>
              /\ pc[i] = "none" /\ result[i] = ""
              /\ resolved[i] = 0 /\ copies[i] = 0
              /\ \A p \in DestFiles : p[Len(p)] # run.entries[i].name

\* A run with the filter jpg has ended: a jpg file is copied, a JPG file, a
\* txt file and the subdirectory were left alone.
C13_Witness ==
    /\ mainpc = "returned" /\ run.filter = <<"j", "p", "g">>
    /\ \E i \in 1..NumEntries : result[i] = "copied" /\ ExtOf(run.entries[i].name) = run.filter
    /\ \E i \in 1..NumEntries : ExtOf(run.entries[i].name) = <<"J", "P", "G">> /\ started[i] = 0
    /\ \E i \in 1..NumEntries : ExtOf(run.entries[i].name) = <<"t", "x", "t">> /\ started[i] = 0
    /\ \E i \in 1..NumEntries : run.entries[i].isDir /\ started[i] = 0

\* The text YYYY-MM-DD of the date of t in its location.
DateText(t) ==
    Pad4(WallDate(t)[1]) \o <<"-">> \o Pad2(WallDate(t)[2]) \o <<"-">> \o Pad2(WallDate(t)[3])

\* {destDir}/{YYYY-MM-DD}-{lowercased extension}/{original filename} of
\* entry i with its resolved timestamp.
ExpectedPath(i) ==
    run.to \o <<DateText(stamp[i]) \o <<"-">> \o ToLower(ExtOf(run.entries[i].name))>>
           \o <<run.entries[i].name>>

\* C14: every copied file is a regular file with the bytes of its source at
\* {destDir}/{YYYY-MM-DD}-{lowercased extension}/{original filename}, the
\* date being that of the timestamp resolved for it, and the run writes no
\* file anywhere else below the destination, in every order of the workers.
C14_Layout ==
    /\ \A i \in 1..NumEntries :
          result[i] = "copied" =>
             LET d == Stat(fs, ExpectedPath(i)) IN
             /\ d.err = "" /\ d.kind = "file"
             /\ fs.data[d.ino] = run.entries[i].bytes
    /\ DestFiles \subseteq
          {ExpectedPath(i) : i \in {j \in 1..NumEntries : result[j] \in {"copied", "copyfail"}}}

\* The run has ended with out/2021-04-12-jpg/02.jpg (capture date, local
\* time), out/2022-01-01-jpg/04.JPG (capture date with offset, uppercase
\* extension) and out/2022-01-02-txt/03.txt (modification time).
C14_Witness ==
    /\ mainpc = "returned"
    /\ Stat(fs, ToDir \o <<<<"2", "0", "2", "1", "-", "0", "4", "-", "1", "2", "-", "j", "p", "g">>, <<"0", "2", ".", "j", "p", "g">>>>).kind = "file"
    /\ Stat(fs, ToDir \o <<<<"2", "0", "2", "2", "-", "0", "1", "-", "0", "1", "-", "j", "p", "g">>, <<"0", "4", ".", "J", "P", "G">>>>).kind = "file"
    /\ Stat(fs, ToDir \o <<<<"2", "0", "2", "2", "-", "0", "1", "-", "0", "2", "-", "t", "x", "t">>, <<"0", "3", ".", "t", "x", "t">>>>).kind = "file"

\* ------------------------------------------------------------------------
\* Properties of the fallbacks
\* ------------------------------------------------------------------------

\* C16 as stated: a candidate whose source file cannot be opened by its
\* worker falls back to its modification time and goes on through the date
\* filter, the creation of the folder and the copy with that timestamp.
C16_OpenFailureFallsBack ==
    \A i \in 1..NumEntries :
        (pc[i] = "done" /\ run.entries[i].fault.step = "openfile") =>
            /\ resolved[i] = 1
            /\ SameInstant(stamp[i], run.entries[i].mtime)
            /\ result[i] \in {"filtered", "mkdirfail", "copyfail", "copied"}

\* The capture date of the generic DateTime tag of the modelled files.
GenericReading == <<2020, 2, 29, 8, 0, 0>>

\* C17 as stated: without a DateTimeOriginal tag in any IFD and with a
\* well-formed generic DateTime tag the result is the DateTime value, not the
\* modification time.
C17_GenericDateTime ==
    (/\ rOut.done /\ rIn.c.exif = "ok"
     /\ Found("DateTimeOriginal") = NoTag
     /\ Found("DateTime") = Ascii(DateString(GenericReading))
     /\ Found("OffsetTimeOriginal") = NoTag /\ Found("OffsetTime") = NoTag) =>
        /\ ~rOut.r.panic
        /\ rOut.r.source # "mtime"
        /\ WallClock(rOut.r.t) = GenericReading

\* ------------------------------------------------------------------------
\* Properties of the source directory
\* ------------------------------------------------------------------------

\* The path of entry i in the source directory.
SourcePath(i) == run.from \o <<run.entries[i].name>>

\* C18: in every state of every run every entry of the source directory is
\* what it was: a directory is a directory, a file is a regular file with
\* its bytes and its modification time; also when the destination of a file
\* is the file itself.
C18_SourceUntouched ==
    \A i \in 1..NumEntries :
        LET f == Stat(fs, SourcePath(i)) IN
        /\ f.err = ""
        /\ run.entries[i].isDir => f.kind = "dir"
        /\ ~run.entries[i].isDir =>
              /\ f.kind = "file"
              /\ fs.data[f.ino] = run.entries[i].bytes
              /\ f.modTime = run.entries[i].mtime

\* The source directory is the folder out/2022-01-02-jpg of the destination
\* out; the run has ended and has copied the file of that date onto itself
\* and another file into another folder.
C18_Witness ==
    /\ mainpc = "returned" /\ run.from = DatedFromDir
    /\ \E i \in Candidates :
          /\ result[i] = "copied" /\ DestPath(i) = SourcePath(i)
          /\ fs.data[Stat(fs, SourcePath(i)).ino] # <<>>
    /\ \E i \in Candidates : result[i] = "copied" /\ DestPath(i) # SourcePath(i)

\* ------------------------------------------------------------------------
\* Properties of the workers, statement by statement
\* ------------------------------------------------------------------------

\* C15: at every moment each worker has at most one open handle on its source
\* file and at most one on its destination file.
C15_OneHandleEach ==
    \A i \in DOMAIN hSrc : hSrc[i] <= 1 /\ hDst[i] <= 1

\* The positions of a worker after its os.MkdirAll call returned nil.
AfterMkdirAll == {"copystat", "cfcopen", "cfccreate", "cfccopy", "cfcchtimes",
                  "cfcsync", "closeout", "closein", "report"}

IsDir(p) == Stat(fs, p).err = "" /\ Stat(fs, p).kind = "dir"

\* C19: workers that create the same folder at the same time do so safely:
\* a worker's folder creation fails only when the environment denies it or
\* something that is not a directory is in the way, never because another
\* worker made the folder first; a worker past the creation finds its folder
\* in place, and so does every worker that copied.
C19_SharedFolder ==
    \A i \in DOMAIN at :
        /\ result[i] = "mkdirfail" => FaultAt(i, "mkdir") \/ ~IsDir(Folder(i))
        /\ at[i] \in AfterMkdirAll => IsDir(Folder(i))
        /\ result[i] \in {"copied", "copyfail"} => IsDir(Folder(i))

\* Two workers copied into one folder, and for one of them Mkdir had failed
\* because the other had made the folder in the meantime.
C19_Witness ==
    \E i, j \in DOMAIN at :
        /\ i # j
        /\ Folder(i) = Folder(j)
        /\ loc[i].mkErr = "EEXIST"
        /\ result[i] = "copied" /\ result[j] = "copied"

\* ------------------------------------------------------------------------
\* Termination
\* ------------------------------------------------------------------------

\* The process has ended: main returned, or log.Fatal, or a panic.
Terminated == status # "running"

\* C20: under a fair scheduler every run ends, and when it has ended no
\* guard slot is held and no worker is still running.
C20_Terminates ==
    /\ <>Terminated
    /\ [](Terminated => guard = 0 /\ InFlight = {})

\* ------------------------------------------------------------------------
\* The two phases of the run
\* ------------------------------------------------------------------------

\* The entries a worker was started for.
Handed == {i \in 1..NumEntries : started[i] > 0}

\* The entries that were sent into fileChan: those still queued, the one
\* main has received and not yet started, and those handed to a worker.
Enqueued ==
    {fileChan[k] : k \in DOMAIN fileChan} \cup (IF cur = 0 THEN {} ELSE {cur}) \cup Handed

\* No entry has left the queue before the enumeration has visited every
\* entry and closed the queue; once closed, the queue held the candidates.
PhasesApart ==
    /\ (Handed # {} \/ cur # 0) => closed /\ idx = NumEntries + 1
    /\ closed => idx = NumEntries + 1 /\ Enqueued = Candidates
    /\ mainpc \in {"wait", "returned"} => Handed = Candidates

\* C21: enumeration and fan-out never overlap: no worker is started (no entry
\* is even received) before every entry has been enumerated and filtered and
\* fileChan has been closed; after the close nothing is added to the
\* enqueued set, and the entries handed to workers are exactly that set.
C21_TwoPhases ==
    [][/\ PhasesApart'
       /\ closed => Enqueued' = Enqueued /\ idx' = idx]_vars

\* The fan-out is under way: some candidates are with their workers, others
\* are still queued, in a run with entries the filter left out.
C21_Witness ==
    /\ closed /\ InFlight # {}
    /\ fileChan # <<>>
    /\ Handed # {} /\ Handed # Candidates
    /\ Candidates # 1..NumEntries

\* ------------------------------------------------------------------------
\* The order in which a worker gives up what it holds
\* ------------------------------------------------------------------------

\* The workers that hold their guard slot, and those the WaitGroup counts.
HoldingSlot == {i \in DOMAIN at : at[i] \notin {"done", "ended"}}

Counted == {i \in DOMAIN at : at[i] # "ended"}

\* C22: however a worker ends (failed open, panic, date filter, failed folder
\* creation, failed or successful copy), its handles on the source and on
\* the destination are closed before it releases its guard slot, and the
\* slot is released before wg.Done counts the worker as finished.
C22_CloseReleaseDone ==
    /\ \A i \in DOMAIN at :
          at[i] \in {"release", "done", "ended"} => hSrc[i] = 0 /\ hDst[i] = 0
    /\ guard = Cardinality(HoldingSlot)
    /\ wg = Cardinality(Counted)
    /\ HoldingSlot \subseteq Counted

\* A worker whose copy failed after the destination was opened has closed
\* its handles and released its slot and is not yet counted as finished,
\* while another worker holds handles on its files.
C22_Witness ==
    \E i, j \in DOMAIN at :
        /\ at[i] = "done" /\ result[i] = "copyfail" /\ loc[i].out # <<>>
        /\ hSrc[j] > 0 /\ hDst[j] > 0

\* ------------------------------------------------------------------------
\* Destinations of concurrent copies
\* ------------------------------------------------------------------------

\* The workers inside copyFile (lines 263-317).
InCopy == {i \in DOMAIN at :
             at[i] \in {"copystat", "cfcopen", "cfccreate", "cfccopy", "cfcchtimes",
                        "cfcsync", "closeout", "closein"}}

\* The workers that have computed their destination path.
HasDst == {i \in DOMAIN at : at[i] \in AfterMkdirAll \/ result[i] \in {"copied", "copyfail"}}

\* C23: the destination paths of different entries of the source directory
\* differ (their folders may be the same), so no two workers are ever inside
\* a copy to the same destination path, nor have the same path open for
\* writing.
C23_DistinctDestinations ==
    \A i, j \in DOMAIN at :
        i # j =>
           /\ run.entries[i].name # run.entries[j].name
           /\ i \in HasDst /\ j \in HasDst => Dst(i) # Dst(j)
           /\ i \in InCopy /\ j \in InCopy => Dst(i) # Dst(j)

\* Two workers write into the same folder at the same time, each with its
\* own destination file open.
C23_Witness ==
    \E i, j \in DOMAIN at :
        /\ i # j
        /\ at[i] = "cfccopy" /\ at[j] = "cfccopy"
        /\ hDst[i] = 1 /\ hDst[j] = 1
        /\ Folder(i) = Folder(j)
        /\ loc[i].out # loc[j].out

====
